---- MODULE Spec2Model ----
(***************************************************************************)
(* CodeHarbor-Executor: the POST /execute pipeline.                        *)
(*                                                                         *)
(*   ExecutionController.executeCode  src/src/controllers/                 *)
(*                                    executionController.js               *)
(*   ExecutionService                 src/unnamed/part_007                 *)
(*   DependencyService                src/unnamed/part_006                 *)
(*   CacheService                     src/src/services/cacheService.js     *)
(*                                                                         *)
(* One request is in flight at a time in this specification; the           *)
(* executions root and the cache root persist from one request to the      *)
(* next.  A step of the model is the code between two awaits of the        *)
(* handler, or one observable step of the child interpreter that runs      *)
(* wrapper.js.                                                             *)
(***************************************************************************)
EXTENDS Integers, Sequences, FiniteSets, TLC

\* ------------------------------------------------------------- bounds --
\* requests served in one behaviour
MaxRequests == 1
\* console calls and raw stream writes one user program makes
MaxCalls == 2
\* requests in flight at the same time in the allocation specification
MaxConcurrent == 2
\* requests the cache specification follows, in order of arrival
MaxJobs == 4
\* pieces of text in a line of a stack
MaxPieces == 3
\* lines of a stack
MaxLines == 2
\* words of an Authorization header
MaxWords == 3
\* statements of a source text
MaxStatements == 2
\* byte counts 0..MaxBytes
MaxBytes == 64
\* whole KiB, MiB and GiB 1..MaxUnits
MaxUnits == 8
\* entries of the cache directory
MaxEntries == 3
\* size of an entry
MaxSize == 2
\* modification times 1..MaxTime
MaxTime == 2
\* budgets 1..MaxLimit
MaxLimit == 6
\* frames of a thrown Error's stack
MaxFrames == 3
MaxNodes == 3
MaxSegments == 3

\* -------------------------------------------------- program constants --
\* parseInt(process.env.DEFAULT_TIMEOUT || '60000', 10)
DEFAULT_TIMEOUT == 60000
\* the last operand of the || chain in the ExecutionService constructor
DefaultMaxExecutionDirs == 100

\* ------------------------------------------------------ value domains --
\* the five console methods wrapper.js replaces
ConsoleTypes == {"log", "info", "warn", "error", "debug"}
\* console methods that write to the primary stream when not replaced
StdoutTypes == {"log", "info", "debug"}
\* the methods the modelled user programs call: one per stream
CalledTypes == {"log", "error"}

\* req.body.code: "" stands for a missing or empty value (falsy)
Codes == {"", "src"}
\* req.body.cacheKey: "" stands for a missing or empty value (falsy)
CacheKeys == {"", "k1"}
\* req.body.options.timeout: 0 stands for absent (0 is falsy as well),
\* -1 for a value spawn() rejects with ERR_OUT_OF_RANGE
RequestTimeouts == {-1, 0, 500}
\* packages a source text can name
Pkgs == {"p"}
\* values of EXECUTIONS_DATA_PRUNE_MAX_COUNT; 0 also stands for unset
PruneCounts == {-1, 0, 1}
\* messages of the error the user entrypoint throws or rejects with
ErrorMessages == {"", "boom"}

\* values of Math.random().toString(36).substring(2, 7)
Suffixes == {"a", "b"}
\* the requests of the allocation specification, in order of arrival
Reqs == 1..MaxConcurrent
\* cache specification: the cache keys requests carry
Keys == {"k1", "k2", "k3"}
\* cache keys are interchangeable: the n-th request draws its key among
\* the first n
KeysOf(n) == {k \in Keys : k = "k1" \/ (k = "k2" /\ n >= 2) \/ n >= 3}
\* cache specification: the requests and their workspaces, numbered in
\* order of arrival
Jobs == 1..MaxJobs

\* a property that is not there (JS undefined)
UndefinedProp == "<undefined>"
\* the raw text of the child's diagnostic stream
RawStderr == "<raw stderr>"
\* the message of a file-system Error
FsMessage == "<fs error>"
\* the message of a spawn 'error' event
SpawnMessage == "<spawn error>"
\* "Command failed: pnpm install ...\n" followed by the captured stderr
PnpmDiagnostic == "<pnpm diagnostic>"
\* no workspace: `let executionDir;` not assigned
NoDir == 0

VARIABLES
  env,              \* process.env as read at startup
  executionService, \* fields of the ExecutionService instance
  now,              \* Date.now() at the last allocation
  dirs,             \* exec-* directories under the executions root
  cache,            \* per cache key, what <cacheRoot>/<key> holds
  served,           \* requests completed so far
  req,              \* body of the request in flight
  pc,               \* position of the handler
  executionDir,     \* the handler's local `executionDir`
  child,            \* the interpreter child running wrapper.js
  settled,          \* what the awaited pipeline resolved or rejected with
  response,         \* what was written to `res`
  events,           \* history: steps of the request in flight, in order
  used,             \* history: resources the request in flight touched
  clock,            \* concurrent allocation: Date.now() at the last mkdir
  root,             \* concurrent allocation: names under the executions root
  flight,           \* concurrent allocation: per request, position and name
  victims,          \* history: requests whose workspace a prune deleted
  entries,          \* cache: per key, the directory <cacheRoot>/<key>
  spaces,           \* cache: workspaces under the executions root
  job,              \* cache: per request, position and locals
  lru,              \* cache: the entries, least recently modified first
  started,          \* cache: requests that have arrived
  last,             \* history: the request that completed last
  harm,             \* history: requests whose entry another key's sweep removed
  slot,             \* population race: the one cache entry raced for
  copier,           \* population race: per request, position and history
  storeDir,         \* store configuration: store-dir in pnpm's user config
  installer,        \* store configuration: per request, position and store
  call              \* a function applied on its own: arguments and result

\* the variables of the concurrent allocation specification (SpecW)
workspaceVars == <<clock, root, flight, victims>>

\* the variables of the cache specification (SpecC)
cacheVars == <<entries, spaces, job, lru, started, last, harm>>

\* the variables of the store configuration specification (SpecT)
storeVars == <<storeDir, installer>>

\* the variables of the population race specification (SpecP), and those
\* of SpecT, which every other specification leaves alone as well
raceVars == <<slot, copier, storeVars>>

\* the variable of the specifications of single functions
unitVars == <<call>>

\* the variables the request pipeline specification (Spec) leaves alone
concurrentVars == <<workspaceVars, cacheVars, raceVars, unitVars>>

\* the variables of the request pipeline specification (Spec)
pipelineVars == <<now, dirs, cache, served, req, pc, executionDir, child,
                  settled, response, events, used>>

vars == <<env, executionService, now, dirs, cache, served, req, pc,
          executionDir, child, settled, response, events, used,
          workspaceVars, cacheVars, raceVars, unitVars>>

\* ------------------------------------------------------------ helpers --
\* JS truthiness of a string-valued property
Truthy(s) == s # "" /\ s # UndefinedProp

\* a || b on timeouts: 0 and undefined (modelled 0) are falsy
OrElse(a, b) == IF a # 0 THEN a ELSE b

\* Concatenation of stream contents by class:
\*   empty  nothing written
\*   ws     white space only
\*   frame  the JSON line the wrapper emits, white space around it
\*   null   the JSON text null, white space around it
\*   text   anything JSON.parse rejects
Cat(a, b) ==
  CASE a = "empty" -> b
    [] b = "empty" -> a
    [] a = "ws" /\ b \in {"ws", "frame", "null"} -> b
    [] b = "ws" /\ a \in {"frame", "null"} -> a
    [] OTHER -> "text"

\* what console.<t>(message) writes when the method is the original one
ConsoleStream(t) == IF t \in StdoutTypes THEN "stdout" ELSE "stderr"

\* The fields of the body that the handler reads more than once.  The
\* source text's dependency set and options.forceUpdate are read by
\* installDependencies only and are drawn there.
NoRequest ==
  [code |-> "", cacheKey |-> "", timeout |-> 0, debug |-> FALSE]

Requests ==
  [code : Codes, cacheKey : CacheKeys, timeout : RequestTimeouts,
   debug : BOOLEAN]

NoFrame == [console |-> <<>>, error |-> UndefinedProp]

NoChild ==
  [phase |-> "none", deadline |-> 0, exitCode |-> 0,
   timedOut |-> FALSE, trapsSigterm |-> FALSE,
   stdout |-> "empty", stderr |-> "empty",
   captured |-> <<>>, uncaptured |-> 0, writes |-> 0, frame |-> NoFrame,
   thrown |-> UndefinedProp, debugFile |-> FALSE]

NoSettled ==
  [kind |-> "none", val |-> "none", error |-> UndefinedProp,
   message |-> UndefinedProp, hasConsole |-> FALSE, console |-> <<>>, hasDebug |-> FALSE]

NoResponse ==
  [sent |-> FALSE, status |-> 0, fields |-> {}, success |-> FALSE,
   error |-> UndefinedProp, console |-> <<>>]

\* exec-<ms>-<suffix>; ms 0 stands for no name
NoName == [ms |-> 0, rnd |-> ""]

\* <cacheRoot>/<key> is absent.  `tree` names the workspace whose
\* node_modules was copied into the entry, 0 when the entry has none.
NoEntry == [dir |-> FALSE, store |-> FALSE, tree |-> 0]

\* what a response of the cache specification shows of its request
NoPrev == [key |-> "", force |-> FALSE, ok |-> FALSE, versions |-> "none"]

\* a handler of the cache specification with no request; id numbers the
\* request and its workspace, prev is the request answered just before
\* this one arrived when nothing else was in flight
NoJob ==
  [pc |-> "idle", id |-> 0, key |-> "", force |-> FALSE, nm |-> "absent",
   pm |-> 0, src |-> 0, versions |-> "none", usedCache |-> FALSE,
   stored |-> FALSE, alone |-> FALSE, ok |-> FALSE, prev |-> NoPrev]

\* no request of the cache specification has been answered
NoLast == [NoJob EXCEPT !.pc = "none"]

\* files of a dependency tree: the request's own package link and the
\* .pnpm directory every tree has
Items == {"pkg1", "pkg2", ".pnpm"}

\* <cacheRoot>/<key> is absent; `nm` is its node_modules directory and
\* `items` gives, per file of node_modules, the request whose copy wrote
\* it, 0 when the file is absent
NoSlot == [dir |-> FALSE, nm |-> FALSE, items |-> [i \in Items |-> 0]]

\* a request of the population race before its install
\* pnpm's store-dir setting before any request has set it
DefaultStore == "default"

\* a request of the store configuration specification before its install
NoInstaller == [pc |-> "idle", key |-> "", store |-> "", raced |-> FALSE]

NoCopier ==
  [pc |-> "idle", tree |-> {}, todo |-> {}, trace |-> <<>>, solo |-> FALSE,
   hadPrior |-> FALSE, saw |-> FALSE, copied |-> FALSE]

\* no function applied
NoCall == [fn |-> "none", arg |-> "none", ret |-> "none", done |-> FALSE]

\* a request of the allocation specification before createExecutionDir;
\* overlap tells whether another request was between its mkdir and the
\* end of its prune while this one was
NoFlight ==
  [pc |-> "new", dir |-> NoName, doomed |-> {}, overlap |-> FALSE]

\* deps: whether extractDependencies found a package; hadEntry: whether
\* <cacheRoot>/<cacheKey> existed when the resolver was entered;
\* nodeModules: what the workspace holds under node_modules; usedCache:
\* debugInfo.cache.usedCache
NoUse ==
  [mkdirs |-> 0, cacheRead |-> FALSE, cacheWrite |-> FALSE, pm |-> 0,
   children |-> 0, deps |-> "unread", hadEntry |-> FALSE,
   nodeModules |-> "absent", usedCache |-> FALSE]

\* --------------------------------------------------------- components --
\* ExecutionService constructor: maxExecutionDirs || parseInt(env) || 100.
\* 0 stands for every falsy operand (0, undefined, NaN).
MaxExecutionDirsOf(maxExecutionDirs, envCount) ==
  OrElse(maxExecutionDirs, OrElse(envCount, DefaultMaxExecutionDirs))

\* The service as the configuration table wires it: the executions root,
\* DEFAULT_TIMEOUT, and the retention count left to the environment.
NewExecutionService(envCount) ==
  [defaultTimeout |-> DEFAULT_TIMEOUT,
   maxExecutionDirs |-> MaxExecutionDirsOf(0, envCount)]

\* pruneOldExecutionDirs: keep the maxExecutionDirs newest directories
PruneOldExecutionDirs(ds, max) ==
  IF max <= 0 THEN ds
  ELSE {d \in ds : Cardinality({e \in ds : e > d}) < max}

\* The two guards at the top of ExecutionController.executeCode: the
\* message of the 400 response, "" when both fields pass.
ValidateCodeOnly(body) ==
  IF ~Truthy(body.code) THEN "Code is required" ELSE ""

Validate(body) ==
  IF ~Truthy(body.code) THEN "Code is required"
  ELSE IF ~Truthy(body.cacheKey) THEN "Cache key is required"
  ELSE ""

\* installDependencies: Object.keys(dependencies).length === 0
NeverEmpty(deps) == FALSE

IsEmptyDependencySet(deps) == deps = {}

\* debugInfo.cache.usedCache = cacheInfo.exists && !forceUpdate, computed
\* after installDependencies returned and only with options.debug
UsedCacheOf(debug, entry, forceUpdate) ==
  debug /\ entry # "none" /\ ~forceUpdate

\* spawn('node', ['wrapper.js'], {timeout: timeout || this.defaultTimeout})
\* with timeout = options.timeout || undefined
SpawnTimeoutNoDefault(timeout, defaultTimeout) == timeout

SpawnTimeout(timeout, defaultTimeout) == OrElse(timeout, defaultTimeout)

\* The steps of the handler once the pipeline has settled, in program
\* order: `await cleanupExecutionDir(...)`, then `return res...json(...)`.
TailOrderRespondFirst == <<"respond", "cleanup">>

TailOrder == <<"cleanup", "respond">>

AfterTail(step) == IF step = TailOrder[1] THEN TailOrder[2] ELSE "done"

\* an Error instance: it has `message` and `stack`, no `error` property
ErrorObject(msg) ==
  [NoSettled EXCEPT !.kind = "rejected", !.val = "Error", !.message = msg]

\* a rejection object built by the runner: {success:false, error, console}
Rejection(err, cons, dbg) ==
  [NoSettled EXCEPT !.kind = "rejected", !.val = "object", !.error = err,
                    !.hasConsole = TRUE, !.console = cons, !.hasDebug = dbg]

\* ------------------------------------------------------------ actions --
\* the process has started: the environment is read, the service is built
Configured ==
  /\ env \in [EXECUTIONS_DATA_PRUNE_MAX_COUNT : PruneCounts]
  /\ executionService =
       NewExecutionService(env.EXECUTIONS_DATA_PRUNE_MAX_COUNT)

\* no request has reached the pipeline
PipelineIdle ==
  /\ now = 0
  /\ dirs = {}
  /\ cache = [k \in CacheKeys |-> "none"]
  /\ served = 0
  /\ req = NoRequest
  /\ pc = "idle"
  /\ executionDir = NoDir
  /\ child = NoChild
  /\ settled = NoSettled
  /\ response = NoResponse
  /\ events = <<>>
  /\ used = NoUse

\* no request has reached the allocator
WorkspaceIdle ==
  /\ clock = 0
  /\ root = {}
  /\ flight = [r \in Reqs |-> NoFlight]
  /\ victims = {}

\* no request has reached the resolver; the cache root and the
\* executions root are empty
CacheIdle ==
  /\ entries = [k \in Keys |-> NoEntry]
  /\ spaces = {}
  /\ job = [r \in Reqs |-> NoJob]
  /\ lru = <<>>
  /\ started = 0
  /\ last = NoLast
  /\ harm = {}

\* no request has reached the cache population
RaceIdle ==
  /\ slot = NoSlot
  /\ copier = [r \in Reqs |-> NoCopier]
  /\ storeDir = DefaultStore
  /\ installer = [r \in Reqs |-> NoInstaller]

\* no function is being applied on its own
UnitIdle == call = NoCall

Init ==
  /\ Configured /\ PipelineIdle /\ WorkspaceIdle /\ CacheIdle
  /\ RaceIdle /\ UnitIdle

\* executeCode up to its first await: destructure the body, validate
ReceiveRequest ==
  /\ pc = "idle"
  /\ served < MaxRequests
  /\ \E body \in Requests :
       LET err == Validate(body) IN
       /\ req' = body
       /\ IF err # ""
          THEN /\ response' = [sent |-> TRUE, status |-> 400,
                               fields |-> {"success", "error"},
                               success |-> FALSE, error |-> err,
                               console |-> <<>>]
               /\ events' = <<"validate", "respond">>
               /\ pc' = "done"
          ELSE /\ response' = NoResponse
               /\ events' = <<"validate">>
               /\ pc' = "allocate"
  /\ UNCHANGED <<concurrentVars, env, executionService, now, dirs, cache, served,
                 executionDir, child, settled, used>>

\* ExecutionService.createExecutionDir: mkdir, then prune
CreateExecutionDir ==
  /\ pc = "allocate"
  /\ \E mkdirOk \in BOOLEAN :
       IF mkdirOk
       THEN /\ now' = now + 1
            /\ dirs' = PruneOldExecutionDirs(dirs \cup {now'},
                                             executionService.maxExecutionDirs)
            /\ executionDir' = now'
            /\ used' = [used EXCEPT !.mkdirs = @ + 1]
            /\ events' = Append(events, "allocate")
            /\ pc' = "resolve"
            /\ UNCHANGED settled
       ELSE /\ settled' = ErrorObject(FsMessage)
            /\ pc' = "catch"
            /\ UNCHANGED <<now, dirs, executionDir, used, events>>
  /\ UNCHANGED <<concurrentVars, env, executionService, cache, served, req, child, response>>


\* DependencyService.installDependencies up to the package manager's
\* install: the empty set returns at once; a complete entry is linked
\* into the workspace; otherwise package.json is written and
\* configurePnpmStore makes <cachePath>/pnpm-store and runs
\* `pnpm config set store-dir`.  With options.debug the controller lists
\* the cache root before the call and inspects it after a success.
InstallDependencies ==
  /\ pc = "resolve"
  /\ \E deps \in SUBSET Pkgs, forceUpdate \in BOOLEAN :
       LET k == req.cacheKey
           seen == [used EXCEPT
                      !.deps = IF deps = {} THEN "none" ELSE "some",
                      !.hadEntry = cache[k] # "none"]
       IN
       IF IsEmptyDependencySet(deps)
       THEN /\ used' = [seen EXCEPT
                          !.cacheRead = @ \/ req.debug,
                          !.usedCache =
                             UsedCacheOf(req.debug, cache[k], forceUpdate)]
            /\ pc' = "execute"
            /\ UNCHANGED <<cache, settled>>
       ELSE IF ~forceUpdate /\ cache[k] = "full"
       THEN /\ used' = [seen EXCEPT
                          !.cacheRead = TRUE,
                          !.nodeModules = "link",
                          !.usedCache =
                             UsedCacheOf(req.debug, cache[k], forceUpdate)]
            /\ pc' = "execute"
            /\ UNCHANGED <<cache, settled>>
       ELSE \E writeOk \in BOOLEAN, configOk \in BOOLEAN :
              LET probed == req.debug \/ ~forceUpdate IN
              IF ~writeOk
              THEN /\ settled' = ErrorObject(FsMessage)
                   /\ used' = [seen EXCEPT !.cacheRead = @ \/ probed]
                   /\ pc' = "catch"
                   /\ UNCHANGED cache
              ELSE /\ cache' = [cache EXCEPT
                                  ![k] = IF @ = "none" THEN "store" ELSE @]
                   /\ used' = [seen EXCEPT !.cacheRead = @ \/ probed,
                                           !.cacheWrite = TRUE,
                                           !.pm = @ + 1]
                   /\ IF configOk
                      THEN /\ pc' = IF forceUpdate THEN "pnpm-force"
                                    ELSE "pnpm"
                           /\ UNCHANGED settled
                      ELSE /\ settled' = ErrorObject(PnpmDiagnostic)
                           /\ pc' = "catch"
  /\ events' = Append(events, "resolve")
  /\ UNCHANGED <<concurrentVars, env, executionService, now, dirs, served, req,
                 executionDir, child, response>>

\* `pnpm install --no-frozen-lockfile` and its callback: a non-zero exit
\* rejects with exec's Error; otherwise, unless forceUpdate, the entry is
\* removed and the workspace's node_modules copied into it.
PnpmInstall ==
  /\ pc \in {"pnpm", "pnpm-force"}
  /\ \E installOk \in BOOLEAN :
       LET forceUpdate == (pc = "pnpm-force") IN
       IF installOk
       THEN /\ cache' = IF forceUpdate THEN cache
                        ELSE [cache EXCEPT ![req.cacheKey] = "full"]
            /\ used' = [used EXCEPT
                          !.pm = @ + 1,
                          !.cacheRead = TRUE,
                          !.nodeModules = "installed",
                          !.usedCache =
                             UsedCacheOf(req.debug, cache'[req.cacheKey],
                                         forceUpdate)]
            /\ pc' = "execute"
            /\ UNCHANGED settled
       ELSE /\ settled' = ErrorObject(PnpmDiagnostic)
            /\ used' = [used EXCEPT !.pm = @ + 1,
                                    !.nodeModules = "partial"]
            /\ pc' = "catch"
            /\ UNCHANGED cache
  /\ UNCHANGED <<concurrentVars, env, executionService, now, dirs, served, req,
                 executionDir, child, response, events>>

\* ExecutionService.executeCode up to the spawn: write execution.js,
\* data.json and wrapper.js, then spawn the interpreter.  A failed write
\* is rethrown as {success:false, error, console:[]}; spawn() throws a
\* RangeError for a negative timeout; a child that cannot be started
\* emits 'error'.
ExecuteCode ==
  /\ pc = "execute"
  /\ events' = Append(events, "execute")
  /\ LET deadline == SpawnTimeout(req.timeout,
                                  executionService.defaultTimeout) IN
     \E writeOk \in BOOLEAN, spawnOk \in BOOLEAN :
       IF ~writeOk
       THEN /\ settled' = Rejection(FsMessage, <<>>, FALSE)
            /\ pc' = "catch"
            /\ UNCHANGED <<child, used>>
       ELSE IF deadline < 0
       THEN /\ settled' = ErrorObject("ERR_OUT_OF_RANGE")
            /\ pc' = "catch"
            /\ UNCHANGED <<child, used>>
       ELSE IF ~spawnOk
       THEN /\ settled' = Rejection(SpawnMessage, <<>>, req.debug)
            /\ pc' = "catch"
            /\ UNCHANGED <<child, used>>
       ELSE /\ child' = [NoChild EXCEPT !.phase = "load",
                                        !.deadline = deadline]
            /\ used' = [used EXCEPT !.children = @ + 1]
            /\ pc' = "child"
            /\ UNCHANGED settled
  /\ UNCHANGED <<concurrentVars, env, executionService, now, dirs, cache, served, req,
                 executionDir, response>>

\* ------------------------------------------------- the child: wrapper.js --
\* wrapper.js runs `require('./execution.js')` first (phase "load"), then
\* replaces the console methods, writes debug.json when asked, reads
\* data.json and checks the export (all at ChildLoaded), then calls the
\* entrypoint in a promise chain (phase "run") and emits one frame (phase
\* "post").  What the user program does is chosen freely.
Running == child.phase \in {"load", "run", "post"}

\* what the user program has put out so far
Outputs == Len(child.captured) + child.uncaptured + child.writes

\* a console call while the methods are still the originals: it writes
\* the formatted line to the method's stream and is not recorded
ChildLoadConsoleCall ==
  /\ pc = "child"
  /\ child.phase = "load"
  /\ Outputs < MaxCalls
  /\ \E t \in CalledTypes, cls \in {"ws", "text"} :
       child' = [child EXCEPT
                   !.uncaptured = @ + 1,
                   !.stdout = IF ConsoleStream(t) = "stdout"
                              THEN Cat(@, cls) ELSE @,
                   !.stderr = IF ConsoleStream(t) = "stderr"
                              THEN Cat(@, cls) ELSE @]
  /\ UNCHANGED <<concurrentVars, env, executionService, now, dirs, cache, served, req, pc,
                 executionDir, settled, response, events, used>>

\* process.stdout.write / process.stderr.write by the user program
ChildWriteStream ==
  /\ pc = "child"
  /\ child.phase \in {"load", "run"}
  /\ Outputs < MaxCalls
  /\ \/ child' = [child EXCEPT !.stdout = Cat(@, "text"),
                               !.writes = @ + 1]
     \/ \E cls \in {"null", "text"} :
          child' = [child EXCEPT !.stderr = Cat(@, cls),
                                 !.writes = @ + 1]
  /\ UNCHANGED <<concurrentVars, env, executionService, now, dirs, cache, served, req, pc,
                 executionDir, settled, response, events, used>>

\* process.on('SIGTERM', ...) by the user program
ChildTrapSigterm ==
  /\ pc = "child"
  /\ child.phase = "load"
  /\ ~child.trapsSigterm
  /\ child' = [child EXCEPT !.trapsSigterm = TRUE]
  /\ UNCHANGED <<concurrentVars, env, executionService, now, dirs, cache, served, req, pc,
                 executionDir, settled, response, events, used>>

\* an exception that escapes the wrapper's top level: thrown while the
\* module loads, or 'The code must export a function'
ChildUncaught ==
  /\ pc = "child"
  /\ child.phase = "load"
  /\ child' = [child EXCEPT !.stderr = Cat(@, "text"),
                            !.exitCode = 1,
                            !.phase = "exited"]
  /\ UNCHANGED <<concurrentVars, env, executionService, now, dirs, cache, served, req, pc,
                 executionDir, settled, response, events, used>>

\* the module has loaded: console methods replaced, debug.json written
ChildLoaded ==
  /\ pc = "child"
  /\ child.phase = "load"
  /\ child' = [child EXCEPT !.phase = "run", !.debugFile = req.debug]
  /\ UNCHANGED <<concurrentVars, env, executionService, now, dirs, cache, served, req, pc,
                 executionDir, settled, response, events, used>>

\* a console call through a replaced method: consoleCapture.push
ChildConsoleCall ==
  /\ pc = "child"
  /\ child.phase \in {"run", "post"}
  /\ Outputs < MaxCalls
  /\ \E t \in CalledTypes :
       child' = [child EXCEPT !.captured = Append(@, t)]
  /\ UNCHANGED <<concurrentVars, env, executionService, now, dirs, cache, served, req, pc,
                 executionDir, settled, response, events, used>>

\* the entrypoint returned, or its promise resolved:
\* originalConsole.log(JSON.stringify({success:true, data, console}))
ChildReturn ==
  /\ pc = "child"
  /\ child.phase = "run"
  /\ child' = [child EXCEPT
                 !.stdout = Cat(@, "frame"),
                 !.frame = [console |-> child.captured,
                            error |-> UndefinedProp],
                 !.phase = "post"]
  /\ UNCHANGED <<concurrentVars, env, executionService, now, dirs, cache, served, req, pc,
                 executionDir, settled, response, events, used>>

\* the entrypoint threw, or its promise rejected, with message m:
\* originalConsole.error(JSON.stringify({success:false, error, stack,
\* console}))
ChildThrow ==
  /\ pc = "child"
  /\ child.phase = "run"
  /\ \E m \in ErrorMessages :
       child' = [child EXCEPT
                   !.stderr = Cat(@, "frame"),
                   !.frame = [console |-> child.captured, error |-> m],
                   !.thrown = m,
                   !.phase = "post"]
  /\ UNCHANGED <<concurrentVars, env, executionService, now, dirs, cache, served, req, pc,
                 executionDir, settled, response, events, used>>

\* the child exits: the event loop ran dry (code 0), with or without a
\* frame emitted, or the user program called process.exit(1)
ChildExit ==
  /\ pc = "child"
  /\ child.phase \in {"run", "post"}
  /\ \E code \in (IF child.phase = "run" THEN {0, 1} ELSE {0}) :
       child' = [child EXCEPT !.exitCode = code, !.phase = "exited"]
  /\ UNCHANGED <<concurrentVars, env, executionService, now, dirs, cache, served, req, pc,
                 executionDir, settled, response, events, used>>

\* the spawn option `timeout` expires: subprocess.kill('SIGTERM'), once.
\* A child with a SIGTERM handler keeps running.
KillOnTimeout ==
  /\ pc = "child"
  /\ Running
  /\ child.deadline > 0
  /\ ~child.timedOut
  /\ child' = IF child.trapsSigterm
              THEN [child EXCEPT !.timedOut = TRUE]
              ELSE [child EXCEPT !.timedOut = TRUE,
                                 !.exitCode = -1,
                                 !.phase = "killed"]
  /\ UNCHANGED <<concurrentVars, env, executionService, now, dirs, cache, served, req, pc,
                 executionDir, settled, response, events, used>>

\* ------------------------------------------------ the host, after spawn --
\* The 'close' handler of ExecutionService.executeCode.  With
\* collectDebugInfo the handler's debugInfo is always an object (debug.json
\* or the fallback), so `errorData.debug = debugInfo` throws on a parsed
\* null and the inner catch builds the raw-text rejection.
OnCloseOutcome(code, stdout, stderr, frame, collectDebugInfo) ==
  IF code # 0 \/ stderr # "empty"
  THEN CASE stderr = "frame" ->
              Rejection(frame.error, frame.console, collectDebugInfo)
         [] stderr = "null" /\ ~collectDebugInfo ->
              [NoSettled EXCEPT !.kind = "rejected", !.val = "null"]
         [] stderr = "empty" ->
              Rejection("Unknown execution error", <<>>, collectDebugInfo)
         [] OTHER ->
              Rejection(RawStderr, <<>>, collectDebugInfo)
  ELSE IF stdout = "frame"
  THEN [NoSettled EXCEPT !.kind = "resolved", !.val = "object",
                         !.hasConsole = TRUE, !.console = frame.console,
                         !.hasDebug = collectDebugInfo]
  ELSE Rejection("Invalid output format", <<>>, collectDebugInfo)

\* the child's streams have closed
OnClose ==
  /\ pc = "child"
  /\ child.phase \in {"exited", "killed"}
  /\ settled' = OnCloseOutcome(child.exitCode, child.stdout, child.stderr,
                               child.frame, req.debug)
  /\ pc' = IF settled'.kind = "resolved" THEN TailOrder[1] ELSE "catch"
  /\ UNCHANGED <<concurrentVars, env, executionService, now, dirs, cache, served, req,
                 executionDir, child, response, events, used>>

\* `catch (error) { console.error('Error: ' + error.stack); ...`: reading
\* a property of null throws inside the catch block, the handler's promise
\* rejects and the handler writes nothing to `res`.
CatchError ==
  /\ pc = "catch"
  /\ pc' = IF settled.val = "null" THEN "crashed" ELSE TailOrder[1]
  /\ UNCHANGED <<concurrentVars, env, executionService, now, dirs, cache, served, req,
                 executionDir, child, settled, response, events, used>>

\* ExecutionService.cleanupExecutionDir, called on the success path and,
\* when executionDir was assigned, in the catch block.  It returns at
\* once when maxExecutionDirs > 0; fs.rm with {recursive, force} is taken
\* to succeed (a failure would only be logged).
CleanupExecutionDir ==
  /\ pc = "cleanup"
  /\ pc' = AfterTail("cleanup")
  /\ IF executionDir = NoDir
     THEN UNCHANGED <<dirs, events>>
     ELSE IF executionService.maxExecutionDirs > 0
     THEN dirs' = dirs /\ events' = Append(events, "reclaim")
     ELSE /\ dirs' = dirs \ {executionDir}
          /\ events' = events \o <<"reclaim", "delete">>
  /\ UNCHANGED <<concurrentVars, env, executionService, now, cache, served, req,
                 executionDir, child, settled, response, used>>

\* The body written to `res`: `res.json(result)` on the success path,
\* `res.status(200).json({success:false, error: error.error || 'Internal
\* server error', stack, ...debug})` in the catch block, where error.debug
\* has been assigned whenever options.debug is set.
ResponseOf(s, debug) ==
  IF s.kind = "resolved"
  THEN [sent |-> TRUE, status |-> 200,
        fields |-> {"success", "data", "console"}
                     \cup (IF debug THEN {"debug"} ELSE {}),
        success |-> TRUE, error |-> UndefinedProp, console |-> s.console]
  ELSE LET errorDebug == s.hasDebug \/ debug IN
       [sent |-> TRUE, status |-> 200,
        fields |-> {"success", "error", "stack"}
                     \cup (IF debug /\ ~errorDebug THEN {"debug"} ELSE {}),
        success |-> FALSE,
        error |-> IF Truthy(s.error) THEN s.error
                  ELSE "Internal server error",
        console |-> <<>>]

SendResponse ==
  /\ pc = "respond"
  /\ response' = ResponseOf(settled, req.debug)
  /\ events' = Append(events, "respond")
  /\ pc' = AfterTail("respond")
  /\ UNCHANGED <<concurrentVars, env, executionService, now, dirs, cache, served, req,
                 executionDir, child, settled, used>>

\* the handler has returned; the server takes the next request
Finish ==
  /\ pc = "done"
  /\ served' = served + 1
  /\ req' = NoRequest
  /\ pc' = "idle"
  /\ executionDir' = NoDir
  /\ child' = NoChild
  /\ settled' = NoSettled
  /\ response' = NoResponse
  /\ events' = <<>>
  /\ used' = NoUse
  /\ UNCHANGED <<concurrentVars, env, executionService, now, dirs, cache>>

Next ==
  \/ ReceiveRequest
  \/ CreateExecutionDir
  \/ InstallDependencies
  \/ PnpmInstall
  \/ ExecuteCode
  \/ ChildLoadConsoleCall
  \/ ChildWriteStream
  \/ ChildTrapSigterm
  \/ ChildUncaught
  \/ ChildLoaded
  \/ ChildConsoleCall
  \/ ChildReturn
  \/ ChildThrow
  \/ ChildExit
  \/ KillOnTimeout
  \/ OnClose
  \/ CatchError
  \/ CleanupExecutionDir
  \/ SendResponse
  \/ Finish

Spec == Init /\ [][Next]_vars

TypeOK ==
  /\ pc \in {"idle", "allocate", "resolve", "pnpm", "pnpm-force",
             "execute", "child",
             "catch", "cleanup", "respond", "done", "crashed"}
  /\ served \in 0..MaxRequests
  /\ req \in Requests
  /\ dirs \subseteq 1..MaxRequests
  /\ executionDir \in 0..MaxRequests

\* ============================ concurrent allocation of workspaces (SpecW) ==
\* Several requests run ExecutionController.executeCode at once; a step
\* is the code of one request between two awaits.  Of the pipeline only
\* createExecutionDir, pruneOldExecutionDirs and cleanupExecutionDir are
\* kept; dependency resolution and execution are one step (ServeRequest).

\* the request has a workspace and its response is not sent yet
InFlight(r) == flight[r].dir # NoName /\ flight[r].pc # "done"

\* requests that created their directory and have not finished their prune
Pruning == {r \in Reqs : flight[r].pc \in {"list", "prune"}}

\* pruneOldExecutionDirs: executionDirs.length - maxExecutionDirs when the
\* length exceeds the maximum, nothing otherwise
DirsToDeleteCountOffByOne(len, max) ==
  IF len > max + 1 THEN len - max - 1 ELSE 0

DirsToDeleteCount(len, max) == IF len > max THEN len - max ELSE 0

\* getExecutionDirs sorts by the millisecond component only, so among
\* names of the same millisecond the order is the directory listing's:
\* every choice of the oldest DirsToDeleteCount names is possible
OldestFirst(ds, max) ==
  {D \in SUBSET ds :
     /\ Cardinality(D) = DirsToDeleteCount(Cardinality(ds), max)
     /\ \A d \in D, e \in ds \ D : d.ms <= e.ms}

\* createExecutionDir up to its await of the prune: the name is built from
\* Date.now() and Math.random(), and mkdir with {recursive: true} succeeds
\* whether or not the directory is already there.  Requests are numbered
\* in order of arrival.
AllocateDir(r) ==
  /\ flight[r].pc = "new"
  /\ IF r = 1 THEN TRUE ELSE flight[r - 1].pc # "new"
  /\ \E mkdirOk \in BOOLEAN :
       IF mkdirOk
       THEN \E ms \in {clock, clock + 1}, rnd \in Suffixes :
              /\ ms > 0
              /\ clock' = ms
              /\ root' = root \cup {[ms |-> ms, rnd |-> rnd]}
              /\ flight' = [q \in Reqs |->
                              IF q = r
                              THEN [pc |-> "list",
                                    dir |-> [ms |-> ms, rnd |-> rnd],
                                    doomed |-> {},
                                    overlap |-> Pruning # {}]
                              ELSE IF q \in Pruning
                              THEN [flight[q] EXCEPT !.overlap = TRUE]
                              ELSE flight[q]]
       ELSE /\ flight' = [flight EXCEPT ![r].pc = "respond"]
            /\ UNCHANGED <<clock, root>>
  /\ UNCHANGED <<victims, env, executionService, pipelineVars,
               cacheVars, raceVars, unitVars>>

\* pruneOldExecutionDirs up to the first fs.rm: return when
\* maxExecutionDirs <= 0, else list the root and pick dirsToDelete
ListExecutionDirs(r) ==
  /\ flight[r].pc = "list"
  /\ IF executionService.maxExecutionDirs <= 0
     THEN flight' = [flight EXCEPT ![r].pc = "serve"]
     ELSE \E D \in OldestFirst(root, executionService.maxExecutionDirs) :
            flight' = [flight EXCEPT ![r].pc = "prune", ![r].doomed = D]
  /\ UNCHANGED <<clock, root, victims, env, executionService, pipelineVars,
               cacheVars, raceVars, unitVars>>

\* the loop over dirsToDelete: fs.rm with {recursive, force} of each name,
\* taken as one step; then createExecutionDir returns
RemoveOldDirs(r) ==
  /\ flight[r].pc = "prune"
  /\ root' = root \ flight[r].doomed
  /\ victims' = victims \cup
                  {q \in Reqs : InFlight(q) /\ flight[q].dir \in root
                                            /\ flight[q].dir \in flight[r].doomed}
  /\ flight' = [flight EXCEPT ![r].pc = "serve", ![r].doomed = {}]
  /\ UNCHANGED <<clock, env, executionService, pipelineVars,
               cacheVars, raceVars, unitVars>>

\* installDependencies and executeCode, whatever their outcome: the
\* handler goes on to cleanupExecutionDir on both paths
ServeRequest(r) ==
  /\ flight[r].pc = "serve"
  /\ flight' = [flight EXCEPT ![r].pc = "cleanup"]
  /\ UNCHANGED <<clock, root, victims, env, executionService, pipelineVars,
               cacheVars, raceVars, unitVars>>

\* cleanupExecutionDir: return when maxExecutionDirs > 0, else fs.rm
ReclaimDir(r) ==
  /\ flight[r].pc = "cleanup"
  /\ root' = IF executionService.maxExecutionDirs > 0 THEN root
             ELSE root \ {flight[r].dir}
  /\ flight' = [flight EXCEPT ![r].pc = "respond"]
  /\ UNCHANGED <<clock, victims, env, executionService, pipelineVars,
               cacheVars, raceVars, unitVars>>

\* res.json: the request is serviced.  Serving a request takes longer
\* than a millisecond, so the clock has moved on.
Respond(r) ==
  /\ flight[r].pc = "respond"
  /\ flight' = [flight EXCEPT ![r].pc = "done"]
  /\ clock' = clock + 1
  /\ UNCHANGED <<root, victims, env, executionService, pipelineVars,
               cacheVars, raceVars, unitVars>>

NextW ==
  \E r \in Reqs :
    \/ AllocateDir(r)
    \/ ListExecutionDirs(r)
    \/ RemoveOldDirs(r)
    \/ ServeRequest(r)
    \/ ReclaimDir(r)
    \/ Respond(r)

SpecW == Init /\ [][NextW]_vars

TypeOKW ==
  /\ \A r \in Reqs : flight[r].pc \in {"new", "list", "prune", "serve",
                                       "cleanup", "respond", "done"}
  /\ \A d \in root : d.ms \in 1..(2 * MaxConcurrent) /\ d.rnd \in Suffixes
  /\ victims \subseteq Reqs

\* ===================================== the dependency cache (SpecC) ==
\* Requests run ExecutionController.executeCode at once, one per handler
\* of Reqs, MaxJobs of them in all; a step is the code of one request
\* between two awaits of DependencyService.installDependencies.  Every
\* request carries options.debug and code that requires the one package
\* of Pkgs.  A workspace is named by the number of its request: the
\* allocation and its prune are one step (their interleavings are SpecW's
\* subject), and the child's protocol is Spec's.
\*
\* pnpm lays node_modules/<pkg> out as a symbolic link into
\* node_modules/.pnpm, and fs.cp, called without verbatimSymlinks, writes
\* each link it copies with its target resolved against the link's own
\* directory: the links of a cache entry lead into the workspace the
\* entry was copied from.

\* this.cacheSizeLimit, in units of which a dependency tree takes TreeSize
CacheSizeLimit == 5

\* getDirectorySize of a copied node_modules (symbolic links count 0)
TreeSize == 3

\* this.cacheSizeLimit * 0.2
Hysteresis == CacheSizeLimit \div 5

\* getDirectorySize(entryPath)
EntrySize(e) == IF e.tree # 0 THEN TreeSize ELSE 0

\* getCacheEntryInfo(cacheKey).exists, as UsedCacheOf reads it
EntryKind(e) == IF e.dir THEN "dir" ELSE "none"

\* cacheEntries.reduce((sum, entry) => sum + entry.size, 0)
RECURSIVE TotalSize(_, _)
TotalSize(E, ord) ==
  IF ord = <<>> THEN 0
  ELSE EntrySize(E[Head(ord)]) + TotalSize(E, Tail(ord))

\* the loop of cleanupCache over the sorted entries: how many it removes
\* before freedSize >= sizeToFree
RECURSIVE EvictCount(_, _, _)
EvictCount(E, ord, sizeToFree) ==
  IF ord = <<>> THEN 0
  ELSE IF EntrySize(E[Head(ord)]) >= sizeToFree THEN 1
  ELSE 1 + EvictCount(E, Tail(ord), sizeToFree - EntrySize(E[Head(ord)]))

\* cleanupCache: the keys it removes, none unless totalSize exceeds the
\* limit
Evicted(E, ord) ==
  LET totalSize == TotalSize(E, ord)
      sizeToFree == totalSize - CacheSizeLimit + Hysteresis
  IN IF totalSize > CacheSizeLimit
     THEN {ord[i] : i \in 1..EvictCount(E, ord, sizeToFree)}
     ELSE {}

\* the entry's directory has just been modified
Touch(ord, k) == Append(SelectSeq(ord, LAMBDA x : x # k), k)

\* the entries of S are gone
Drop(ord, S) == SelectSeq(ord, LAMBDA x : x \notin S)

\* fs.access(cacheModulesPath) and checkForMissingDependencies: the entry
\* has a node_modules and <entry>/node_modules/<pkg>/package.json is
\* reached through the link
LinksResolve(E, k, ws) == E[k].dir /\ E[k].tree # 0 /\ E[k].tree \in ws

\* handlers between arrival and response
InFlightJobs == {r \in Reqs : job[r].pc # "idle"}

\* handlers that are past the reuse check
Engaged == {r \in Reqs : job[r].pc \in {"install", "rm", "sweep",
                                        "populate", "exec", "run"}}

\* require(<pkg>) in the child finds the package
Resolvable(jb) ==
  CASE jb.nm = "installed" -> jb.id \in spaces
    [] jb.nm = "link" -> LinksResolve(entries, jb.key, spaces)
    [] jb.nm = "copy" -> jb.id \in spaces /\ jb.src \in spaces
    [] OTHER -> FALSE

\* the end of the handler on either path: cleanupExecutionDir (fs.rm
\* unless maxExecutionDirs > 0), then the response
Leave(r, ok, jb) ==
  /\ last' = [jb EXCEPT !.pc = "done", !.ok = ok]
  /\ job' = [job EXCEPT ![r] = NoJob]
  /\ spaces' = IF executionService.maxExecutionDirs > 0 THEN spaces
               ELSE spaces \ {jb.id}

\* a request arrives with its cacheKey and options.forceUpdate, at the
\* first free handler; createExecutionDir makes the workspace and prunes
\* the executions root
Start(r) ==
  /\ job[r].pc = "idle"
  /\ \A q \in Reqs : q < r => job[q].pc # "idle"
  /\ started < MaxJobs
  /\ started' = started + 1
  /\ \E k \in KeysOf(started + 1), f \in BOOLEAN :
       job' = [q \in Reqs |->
                 IF q = r
                 THEN [NoJob EXCEPT
                         !.pc = "resolve", !.id = started + 1,
                         !.key = k, !.force = f,
                         !.alone = (InFlightJobs = {}),
                         !.prev = IF InFlightJobs = {} /\ last.pc = "done"
                                  THEN [key |-> last.key,
                                        force |-> last.force,
                                        ok |-> last.ok,
                                        versions |-> last.versions]
                                  ELSE NoPrev]
                 ELSE [job[q] EXCEPT !.alone = (@ /\ job[q].pc = "idle")]]
  /\ spaces' = PruneOldExecutionDirs(spaces \cup {started + 1},
                                     executionService.maxExecutionDirs)
  /\ last' = NoLast
  /\ UNCHANGED <<entries, lru, harm, env, executionService,
                 pipelineVars, workspaceVars,
                 raceVars, unitVars>>

\* installDependencies up to the package.json write: without forceUpdate
\* and with every package found in the entry, node_modules becomes a link
\* to the entry (a copy of it when fs.symlink fails, which fs.cp makes
\* together with a missing workspace directory) and the resolver returns
Resolve(r) ==
  /\ job[r].pc = "resolve"
  /\ LET k == job[r].key
         w == job[r].id
     IN IF ~job[r].force /\ LinksResolve(entries, k, spaces)
        THEN /\ job' = [job EXCEPT
                          ![r].pc = "exec",
                          ![r].nm = IF w \in spaces THEN "link" ELSE "copy",
                          ![r].src = entries[k].tree,
                          ![r].versions = "v1",
                          ![r].usedCache =
                            UsedCacheOf(TRUE, EntryKind(entries[k]),
                                        job[r].force)]
             /\ spaces' = spaces \cup {w}
             /\ UNCHANGED last
        ELSE IF w \in spaces
             THEN /\ job' = [job EXCEPT ![r].pc = "install"]
                  /\ UNCHANGED <<spaces, last>>
             ELSE Leave(r, FALSE, job[r])
  /\ UNCHANGED <<entries, lru, started, harm, env, executionService,
                 pipelineVars, workspaceVars,
                 raceVars, unitVars>>

\* configurePnpmStore (mkdir <entry>/pnpm-store) and `pnpm install` in
\* the workspace, then getInstalledVersions; a failure rejects.  With
\* forceUpdate the cache update is skipped and the resolver returns.
Install(r) ==
  /\ job[r].pc = "install"
  /\ LET k == job[r].key
         e == entries[k]
     IN /\ entries' = [entries EXCEPT
                         ![k] = [e EXCEPT !.dir = TRUE, !.store = TRUE]]
        /\ lru' = IF e.dir /\ e.store THEN lru ELSE Touch(lru, k)
        /\ IF job[r].id \notin spaces
           THEN Leave(r, FALSE, job[r])
           ELSE \E pnpmOk \in BOOLEAN :
                  IF pnpmOk
                  THEN /\ job' = [job EXCEPT
                                    ![r].pc = IF job[r].force THEN "exec"
                                              ELSE "rm",
                                    ![r].pm = @ + 1,
                                    ![r].nm = "installed",
                                    ![r].src = job[r].id,
                                    ![r].versions = "v1",
                                    ![r].usedCache =
                                      IF job[r].force
                                      THEN UsedCacheOf(TRUE,
                                             EntryKind(entries'[k]), TRUE)
                                      ELSE @]
                       /\ UNCHANGED <<spaces, last>>
                  ELSE Leave(r, FALSE, [job[r] EXCEPT !.pm = @ + 1])
  /\ UNCHANGED <<started, harm, env, executionService, pipelineVars,
                 workspaceVars, raceVars, unitVars>>

\* "Clean up old cache if it exists": fs.rm of <cacheRoot>/<key>
RemoveEntry(r) ==
  /\ job[r].pc = "rm"
  /\ entries' = [entries EXCEPT ![job[r].key] = NoEntry]
  /\ lru' = Drop(lru, {job[r].key})
  /\ job' = [job EXCEPT ![r].pc = "sweep"]
  /\ UNCHANGED <<spaces, started, last, harm, env, executionService,
                 pipelineVars, workspaceVars,
                 raceVars, unitVars>>

\* cacheService.cleanupCache(), before the new entry is written
Sweep(r) ==
  /\ job[r].pc = "sweep"
  /\ LET gone == Evicted(entries, lru)
     IN /\ entries' = [k \in Keys |->
                         IF k \in gone THEN NoEntry ELSE entries[k]]
        /\ lru' = Drop(lru, gone)
        /\ harm' = harm \cup {job[q].id : q \in
                                {p \in Engaged \ {r} :
                                   /\ job[p].key # job[r].key
                                   /\ job[p].key \in gone}}
  /\ job' = [job EXCEPT ![r].pc = "populate"]
  /\ UNCHANGED <<spaces, started, last, env, executionService,
                 pipelineVars, workspaceVars,
                 raceVars, unitVars>>

\* mkdir <cacheRoot>/<key> and fs.cp of the workspace's node_modules into
\* it; an error is logged and the resolver returns all the same
Populate(r) ==
  /\ job[r].pc = "populate"
  /\ LET k == job[r].key
         e == entries[k]
         copied == job[r].id \in spaces
     IN /\ entries' = [entries EXCEPT
                         ![k] = IF copied
                                THEN [dir |-> TRUE, store |-> e.store,
                                      tree |-> job[r].id]
                                ELSE [e EXCEPT !.dir = TRUE]]
        /\ lru' = IF e.dir /\ (e.tree # 0 \/ ~copied) THEN lru
                    ELSE Touch(lru, k)
        /\ job' = [job EXCEPT
                     ![r].pc = "exec",
                     ![r].stored = copied,
                     ![r].usedCache =
                       UsedCacheOf(TRUE, EntryKind(entries'[k]),
                                   job[r].force)]
  /\ UNCHANGED <<spaces, started, last, harm, env, executionService,
                 pipelineVars, workspaceVars,
                 raceVars, unitVars>>

\* executeCode writes its files into the workspace and spawns the child;
\* a missing workspace rejects
Execute(r) ==
  /\ job[r].pc = "exec"
  /\ IF job[r].id \in spaces
     THEN /\ job' = [job EXCEPT ![r].pc = "run"]
          /\ UNCHANGED <<spaces, last>>
     ELSE Leave(r, FALSE, job[r])
  /\ UNCHANGED <<entries, lru, started, harm, env, executionService,
                 pipelineVars, workspaceVars,
                 raceVars, unitVars>>

\* the child requires the package and closes; cleanup and response
Complete(r) ==
  /\ job[r].pc = "run"
  /\ Leave(r, Resolvable(job[r]), job[r])
  /\ UNCHANGED <<entries, lru, started, harm, env, executionService,
                 pipelineVars, workspaceVars,
                 raceVars, unitVars>>

NextC ==
  \E r \in Reqs :
    \/ Start(r)
    \/ Resolve(r)
    \/ Install(r)
    \/ RemoveEntry(r)
    \/ Sweep(r)
    \/ Populate(r)
    \/ Execute(r)
    \/ Complete(r)

SpecC == Init /\ [][NextC]_vars

TypeOKC ==
  /\ \A r \in Reqs :
       /\ job[r].pc \in {"idle", "resolve", "install", "rm", "sweep",
                         "populate", "exec", "run"}
       /\ job[r].pm \in 0..1
       /\ job[r].nm \in {"absent", "link", "copy", "installed"}
  /\ \A k \in Keys : entries[k].tree \in 0..MaxJobs
  /\ {lru[i] : i \in 1..Len(lru)} = {k \in Keys : entries[k].dir}
  /\ spaces \subseteq Jobs
  /\ harm \subseteq Jobs
  /\ started \in 0..MaxJobs
\* ================================== the population race (SpecP) ==
\* Requests with the same cacheKey and forceUpdate=false whose pnpm
\* install has succeeded run the cache population of installDependencies
\* at once.  A step is the code of one request between two awaits;
\* fs.cp writes node_modules file by file, in the order of the listing.
\* The Dependency Sets of the requests may differ: a tree holds the link
\* of the package its request requires, and the .pnpm directory.

\* the steps of the population, in program order
PopulateOrderSweepFirst == <<"sweep", "rm", "mkdir", "cp">>

PopulateOrder == <<"rm", "sweep", "mkdir", "cp">>

\* the step after `step`; fs.cp comes last and loops over the files
AfterStep(step) ==
  LET i == CHOOSE n \in 1..Len(PopulateOrder) : PopulateOrder[n] = step
  IN IF i < Len(PopulateOrder) THEN PopulateOrder[i + 1] ELSE "copy"

\* node_modules holding exactly the files of `tree`, all written by r
Whole(r, tree) == [i \in Items |-> IF i \in tree THEN r ELSE 0]

\* getDirectorySize of the entry
SlotSize(s) == IF \E i \in Items : s.items[i] # 0 THEN TreeSize ELSE 0

\* requests of the race between install and the end of the population
Populating == {r \in Reqs : copier[r].pc \notin {"idle", "done"}}

\* the request's `pnpm install` has succeeded (forceUpdate is false)
FinishInstall(r) ==
  /\ copier[r].pc = "idle"
  /\ IF r = 1 THEN TRUE ELSE copier[r - 1].pc # "idle"
  /\ \E pkg \in Items \ {".pnpm"} :
       copier' = [q \in Reqs |->
                    IF q = r
                    THEN [NoCopier EXCEPT
                            !.pc = PopulateOrder[1],
                            !.tree = {pkg, ".pnpm"},
                            !.solo = (Populating = {})]
                    ELSE IF q \in Populating
                         THEN [copier[q] EXCEPT !.solo = FALSE]
                         ELSE copier[q]]
  /\ UNCHANGED <<slot, env, executionService, pipelineVars, workspaceVars,
                 cacheVars, unitVars, storeVars>>

\* "Clean up old cache if it exists": fs.access, then fs.rm of the entry
RemovePrior(r) ==
  /\ copier[r].pc = "rm"
  /\ slot' = NoSlot
  /\ copier' = [copier EXCEPT ![r].pc = AfterStep("rm"),
                              ![r].hadPrior = slot.dir,
                              ![r].trace = Append(@, "rm")]
  /\ UNCHANGED <<env, executionService, pipelineVars, workspaceVars,
                 cacheVars, unitVars, storeVars>>

\* cacheService.cleanupCache(): the entry goes when the total exceeds the
\* limit; `saw` keeps whether the listing held the key's entry
CleanupCache(r) ==
  /\ copier[r].pc = "sweep"
  /\ slot' = IF SlotSize(slot) > CacheSizeLimit THEN NoSlot ELSE slot
  /\ copier' = [copier EXCEPT ![r].pc = AfterStep("sweep"),
                              ![r].saw = slot.dir,
                              ![r].trace = Append(@, "sweep")]
  /\ UNCHANGED <<env, executionService, pipelineVars, workspaceVars,
                 cacheVars, unitVars, storeVars>>

\* fs.mkdir(<cacheRoot>/<key>, {recursive: true})
MakeEntry(r) ==
  /\ copier[r].pc = "mkdir"
  /\ slot' = [slot EXCEPT !.dir = TRUE]
  /\ copier' = [copier EXCEPT ![r].pc = AfterStep("mkdir"),
                              ![r].trace = Append(@, "mkdir")]
  /\ UNCHANGED <<env, executionService, pipelineVars, workspaceVars,
                 cacheVars, unitVars, storeVars>>

\* fs.cp begins: it makes <entry>/node_modules and lists the workspace's;
\* without the entry directory it throws, which is logged ("Continue
\* even if caching fails")
StartCopy(r) ==
  /\ copier[r].pc = "cp"
  /\ IF slot.dir
     THEN /\ slot' = [slot EXCEPT !.nm = TRUE]
          /\ copier' = [copier EXCEPT ![r].pc = AfterStep("cp"),
                                      ![r].todo = copier[r].tree,
                                      ![r].trace = Append(@, "cp")]
     ELSE /\ copier' = [copier EXCEPT ![r].pc = "done",
                                      ![r].trace = Append(@, "cp")]
          /\ UNCHANGED slot
  /\ UNCHANGED <<env, executionService, pipelineVars, workspaceVars,
                 cacheVars, unitVars, storeVars>>

\* fs.cp writes one file, over whatever is there; it throws when
\* node_modules has been removed under it
CopyItem(r) ==
  /\ copier[r].pc = "copy"
  /\ IF slot.nm
     THEN \E i \in copier[r].todo :
            /\ slot' = [slot EXCEPT !.items[i] = r]
            /\ copier' = [copier EXCEPT
                            ![r].todo = @ \ {i},
                            ![r].copied = (copier[r].todo = {i}),
                            ![r].pc = IF copier[r].todo = {i} THEN "done"
                                      ELSE "copy"]
     ELSE /\ copier' = [copier EXCEPT ![r].pc = "done", ![r].todo = {}]
          /\ UNCHANGED slot
  /\ UNCHANGED <<env, executionService, pipelineVars, workspaceVars,
                 cacheVars, unitVars, storeVars>>

NextP ==
  \E r \in Reqs :
    \/ FinishInstall(r)
    \/ RemovePrior(r)
    \/ CleanupCache(r)
    \/ MakeEntry(r)
    \/ StartCopy(r)
    \/ CopyItem(r)

SpecP == Init /\ [][NextP]_vars

TypeOKP ==
  /\ \A r \in Reqs :
       /\ copier[r].pc \in {"idle", "rm", "sweep", "mkdir", "cp", "copy",
                            "done"}
       /\ copier[r].todo \subseteq copier[r].tree
  /\ \A i \in Items : slot.items[i] \in 0..MaxConcurrent
  /\ slot.nm => slot.dir

\* ====================================== filterErrorStack (SpecF) ==
\* ExecutionController.filterErrorStack applied to error.stack.  A line is
\* a sequence of pieces of text:
\*   ws             the absolute path of the request's workspace
\*   srv            another directory of the server
\*   /execution.js  /node_modules/  wrapper.js   the texts the filter looks for
\*   txt            anything else
\* A stack is the sequence of its lines; NoStack is a missing error.stack.

\* pieces of a line of the stack, as it reaches the filter
Pieces == {"ws", "srv", "/execution.js", "/node_modules/", "wrapper.js",
           "txt"}

\* lines of at most MaxPieces pieces
Lines == UNION {[1..n -> Pieces] : n \in 0..MaxPieces}

\* error.stack is undefined or empty
NoStack == <<<<"<no stack>">>>>

\* stacks of at most MaxLines lines
Stacks == {NoStack} \cup UNION {[1..n -> Lines] : n \in 1..MaxLines}

\* line.includes(piece)
Includes(line, piece) == \E i \in DOMAIN line : line[i] = piece

\* where the greedy /(.+)<piece>/ matches: the last occurrence that has
\* text in front of it, 0 when there is none
LastWithPrefix(line, piece) ==
  LET at == {i \in DOMAIN line : i > 1 /\ line[i] = piece}
  IN IF at = {} THEN 0 ELSE CHOOSE i \in at : \A j \in at : j <= i

\* the callback of .map: the first line is kept, a line naming
\* execution.js or /node_modules/ loses what precedes the match, a line
\* naming wrapper.js (or eval) becomes "    at [code]", others are dropped
\* (<<>> stands for null and for the empty line, both removed by
\* .filter(Boolean))
FilterLine(line, index) ==
  LET exec == LastWithPrefix(line, "/execution.js")
      mods == LastWithPrefix(line, "/node_modules/")
  IN IF index = 0 THEN line
     ELSE IF Includes(line, "/execution.js") /\ exec # 0
     THEN <<"execution.js">> \o SubSeq(line, exec + 1, Len(line))
     ELSE IF Includes(line, "/node_modules/") /\ mods # 0
     THEN SubSeq(line, mods, Len(line))
     ELSE IF Includes(line, "wrapper.js") THEN <<"    at [code]">>
     ELSE <<>>

\* filterErrorStack(error)
FilterErrorStack(stack) ==
  IF stack = NoStack THEN <<<<"Error: No stack trace available">>>>
  ELSE SelectSeq([i \in DOMAIN stack |-> FilterLine(stack[i], i - 1)],
                 LAMBDA l : l # <<>>)

\* the text names the workspace, or a server directory in front of
\* /node_modules/
Leaks(stack) ==
  \E n \in DOMAIN stack :
    \/ Includes(stack[n], "ws")
    \/ \E i \in DOMAIN stack[n] :
         /\ i > 1
         /\ stack[n][i] = "/node_modules/"
         /\ stack[n][i - 1] \in {"ws", "srv"}

\* the server is up and idle but for the function under study
Quiet ==
  /\ Configured /\ env.EXECUTIONS_DATA_PRUNE_MAX_COUNT = 0
  /\ PipelineIdle /\ WorkspaceIdle /\ CacheIdle /\ RaceIdle

\* the catch block is about to filter some error.stack
InitF ==
  /\ Quiet
  /\ call \in {[fn |-> "filterErrorStack", arg |-> st, ret |-> <<>>,
                done |-> FALSE] : st \in Stacks}

\* const filteredStack = this.filterErrorStack(error)
ApplyFilterErrorStack ==
  /\ call.fn = "filterErrorStack"
  /\ ~call.done
  /\ call' = [call EXCEPT !.ret = FilterErrorStack(call.arg), !.done = TRUE]
  /\ UNCHANGED <<env, executionService, pipelineVars, workspaceVars,
                 cacheVars, raceVars>>

NextF == ApplyFilterErrorStack

SpecF == InitF /\ [][NextF]_vars

\* ========================================= authMiddleware (SpecA) ==
\* authMiddleware applied to one request.  The Authorization header is
\* the sequence of its words, as split(' ') gives them (<<>> is a missing
\* or empty header, "" the empty word between two spaces); the token is
\* app.get('secretKey'), "" when SECRET_KEY is not configured.

\* the configured SECRET_KEY
SecretKey == "s3cret"

\* req.path
Paths == {"/health", "/execute", "/verify-auth"}

\* words of an Authorization header
Words == {"Bearer", "Basic", SecretKey, "other", ""}

\* req.headers.authorization; the HTTP parser strips the white space
\* around a header value
Headers ==
  {h \in UNION {[1..n -> Words] : n \in 0..MaxWords} :
     Len(h) > 0 => h[1] # "" /\ h[Len(h)] # ""}

\* authHeader.startsWith('Bearer ')
StartsWithBearer(header) == Len(header) >= 2 /\ header[1] = "Bearer"

\* next() was called
Proceed == [status |-> 0, next |-> TRUE]

\* res.status(code).json(...) without next()
Deny(code) == [status |-> code, next |-> FALSE]

\* authMiddleware(req, res, next)
AuthMiddleware(path, secret, header) ==
  IF path = "/health" THEN Proceed
  ELSE IF secret = "" THEN Proceed
  ELSE IF Len(header) = 0 \/ ~StartsWithBearer(header) THEN Deny(401)
  ELSE IF header[2] # secret THEN Deny(403)
  ELSE Proceed

\* a request reaches the middleware
InitA ==
  /\ Quiet
  /\ call \in {[fn |-> "authMiddleware",
                arg |-> [path |-> p, secret |-> s, header |-> h],
                ret |-> Deny(0), done |-> FALSE] :
                 p \in Paths, s \in {"", SecretKey}, h \in Headers}

ApplyAuthMiddleware ==
  /\ call.fn = "authMiddleware"
  /\ ~call.done
  /\ call' = [call EXCEPT
                !.ret = AuthMiddleware(call.arg.path, call.arg.secret,
                                       call.arg.header),
                !.done = TRUE]
  /\ UNCHANGED <<env, executionService, pipelineVars, workspaceVars,
                 cacheVars, raceVars>>

NextA == ApplyAuthMiddleware

SpecA == InitA /\ [][NextA]_vars

\* ==================================== extractDependencies (SpecX) ==
\* extractDependencies applied to one source text.  A source text is the
\* sequence of its statements; a statement is a require call, an import
\* with a from clause, a side-effect import, or text neither regular
\* expression matches.  A specifier is [scope, name, version]: "" for no
\* scope and for no pinned version.

\* some of the nativeModules, and two packages
ModuleNames == {"fs", "path", "lodash", "pkg"}

\* const nativeModules = [...]
NativeModules == {"fs", "path"}

Specifiers ==
  [scope : {"", "@scope"}, name : ModuleNames, version : {"", "1.2.3"}]

Statements ==
  [form : {"require", "from", "bare", "other"}, spec : Specifiers]

Sources == UNION {[1..n -> Statements] : n \in 0..MaxStatements}

\* the array exec returns for a statement the regular expression matches:
\* the whole match, then one element for each capturing group.  Both
\* requireRegex and importRegex have a single capturing group, the
\* specifier; every other group of importRegex is (?: ... )
ExecMatch(stmt) == <<stmt, stmt.spec>>

\* match[i] of a JavaScript array: nothing (undefined) past its end
At(match, i) == IF i + 1 <= Len(match) THEN <<match[i + 1]>> ELSE <<>>

\* const fullPackageName = match[1], in the require loop
RequireGroup == 1

\* const fullPackageName = match[2], in the import loop
ImportGroup == 2

\* extractBasePackageName: the scope and the name, or the name, without
\* the @version that follows
ExtractBasePackageName(spec) ==
  IF spec.scope # "" THEN spec.scope \o "/" \o spec.name ELSE spec.name

\* isNativeModule
IsNativeModule(moduleName) == moduleName \in NativeModules

Threw == [threw |-> TRUE, dependencies |-> <<>>]

\* the names one loop adds to dependencies
Extracted(code, forms, group) ==
  {ExtractBasePackageName(At(ExecMatch(code[i]), group)[1]) :
     i \in {j \in DOMAIN code : code[j].form \in forms}}

\* extractDependencies(code); fullName.startsWith throws a TypeError when
\* fullName is undefined
ExtractDependencies(code) ==
  LET requires == {i \in DOMAIN code : code[i].form = "require"}
      imports == {i \in DOMAIN code : code[i].form \in {"from", "bare"}}
  IN IF \/ \E i \in requires : At(ExecMatch(code[i]), RequireGroup) = <<>>
        \/ \E i \in imports : At(ExecMatch(code[i]), ImportGroup) = <<>>
     THEN Threw
     ELSE LET names ==
                {n \in Extracted(code, {"require"}, RequireGroup) \cup
                       Extracted(code, {"from", "bare"}, ImportGroup) :
                   ~IsNativeModule(n)}
          IN [threw |-> FALSE, dependencies |-> [n \in names |-> "latest"]]

\* a request's code reaches the extractor
InitX ==
  /\ Quiet
  /\ call \in {[fn |-> "extractDependencies", arg |-> code, ret |-> Threw,
                done |-> FALSE] : code \in Sources}

\* const dependencies = this.dependencyService.extractDependencies(code)
ApplyExtractDependencies ==
  /\ call.fn = "extractDependencies"
  /\ ~call.done
  /\ call' = [call EXCEPT !.ret = ExtractDependencies(call.arg),
                          !.done = TRUE]
  /\ UNCHANGED <<env, executionService, pipelineVars, workspaceVars,
                 cacheVars, raceVars>>

NextX == ApplyExtractDependencies

SpecX == InitX /\ [][NextX]_vars

\* ============================== formatFileSize, parseFileSize (SpecS) ==
\* parseFileSize applied to what formatFileSize returns.  A byte count is
\* [n, s], the number n * 1024^s, so that 5 GiB is written without a
\* number above 2^31; a formatted size is its digits without the decimal
\* point, the number of decimals and the text after the digits; a parsed
\* size is [h, k], the number (h / 100) * 1024^k.

\* 1024^k
Pow1024(k) == IF k = 0 THEN 1 ELSE IF k = 1 THEN 1024
              ELSE IF k = 2 THEN 1048576 ELSE 1073741824

\* the byte counts the conversions are applied to: the small ones, the
\* ones next to a change of unit, and whole numbers of KiB, MiB and GiB
ByteCounts ==
  {[n |-> n, s |-> 0] :
     n \in (0..MaxBytes) \cup {1023, 1024, 1025, 1048575, 1048576, 1048577}}
  \cup [n : 1..MaxUnits, s : 1..3]

\* bytes >= 1024^k
AtLeast(b, k) ==
  IF b.s >= k THEN b.n >= 1 ELSE b.n >= Pow1024(k - b.s)

\* (bytes / 1024^k).toFixed(2) without its decimal point: the multiple of
\* 0.01 nearest to the quotient, the larger one of two equally near
ToFixed2(b, k) ==
  IF b.s >= k THEN 100 * b.n * Pow1024(b.s - k)
  ELSE (100 * b.n + Pow1024(k - b.s) \div 2) \div Pow1024(k - b.s)

\* formatFileSize(bytes)
FormatFileSize(b) ==
  IF AtLeast(b, 3)
    THEN [digits |-> ToFixed2(b, 3), decimals |-> 2, unit |-> " GB"]
  ELSE IF AtLeast(b, 2)
    THEN [digits |-> ToFixed2(b, 2), decimals |-> 2, unit |-> " MB"]
  ELSE IF AtLeast(b, 1)
    THEN [digits |-> ToFixed2(b, 1), decimals |-> 2, unit |-> " KB"]
  ELSE [digits |-> b.n, decimals |-> 0, unit |-> " bytes"]

\* the texts /^(\d+(?:\.\d+)?)\s*([KMGT]?B)$/i accepts after the number,
\* with the power of 1024 of units[unit]
UnitOf(text) ==
  IF text \in {"B", " B"} THEN <<0>>
  ELSE IF text \in {"KB", " KB"} THEN <<1>>
  ELSE IF text \in {"MB", " MB"} THEN <<2>>
  ELSE IF text \in {"GB", " GB"} THEN <<3>>
  ELSE IF text \in {"TB", " TB"} THEN <<4>>
  ELSE <<>>

\* parseInt(sizeStr, 10): the digits before the decimal point
ParseInt(str) == IF str.decimals = 2 THEN str.digits \div 100 ELSE str.digits

\* the default of parseFileSize, 1073741824
DefaultSize == [h |-> 100, k |-> 3]

\* parseFileSize(sizeStr)
ParseFileSize(str) ==
  IF UnitOf(str.unit) = <<>>
    THEN IF ParseInt(str) = 0 THEN DefaultSize
         ELSE [h |-> 100 * ParseInt(str), k |-> 0]
    ELSE [h |-> IF str.decimals = 2 THEN str.digits ELSE 100 * str.digits,
          k |-> UnitOf(str.unit)[1]]

\* a byte count is formatted and the result parsed
InitS ==
  /\ Quiet
  /\ call \in {[fn |-> "parseFileSize(formatFileSize)", arg |-> b,
                ret |-> DefaultSize, done |-> FALSE] : b \in ByteCounts}

ApplyParseFormat ==
  /\ call.fn = "parseFileSize(formatFileSize)"
  /\ ~call.done
  /\ call' = [call EXCEPT !.ret = ParseFileSize(FormatFileSize(call.arg)),
                          !.done = TRUE]
  /\ UNCHANGED <<env, executionService, pipelineVars, workspaceVars,
                 cacheVars, raceVars>>

NextS == ApplyParseFormat

SpecS == InitS /\ [][NextS]_vars

\* ===================================== cleanupCache alone (SpecK) ==
\* One call of cleanupCache on a cache directory nothing else touches.
\* The directory is the sequence of its entries in the order readdir
\* lists them, each with the size getDirectorySize measures and its
\* modification time; the budget is the cacheSizeLimit the service was
\* constructed with.

\* getCacheEntries()
CacheEntries ==
  UNION {[1..n -> [size : 0..MaxSize, lastModified : 1..MaxTime]] :
           n \in 0..MaxEntries}

\* this.cacheSizeLimit
Limits == 1..MaxLimit

\* cacheEntries.reduce((sum, entry) => sum + entry.size, 0), over the
\* entries at the places idx
RECURSIVE SumSizes(_, _)
SumSizes(es, idx) ==
  IF idx = <<>> THEN 0 ELSE es[Head(idx)].size + SumSizes(es, Tail(idx))

\* the places 1..Len(es) of the entries
Places(es) == [i \in 1..Len(es) |-> i]

\* cacheEntries.sort((a, b) => a.lastModified - b.lastModified): the
\* places of the entries, oldest first; the sort is stable
SortByLastModified(es) ==
  LET before(i, j) ==
        \/ es[i].lastModified < es[j].lastModified
        \/ es[i].lastModified = es[j].lastModified /\ i < j
      rank(i) == 1 + Cardinality({j \in DOMAIN es : before(j, i)})
  IN [r \in 1..Len(es) |-> CHOOSE i \in DOMAIN es : rank(i) = r]

\* freedSize >= sizeToFree, where sizeToFree is
\* totalSize - cacheSizeLimit + cacheSizeLimit * 0.2; both sides times 5
FreedEnoughNoMargin(freedSize, totalSize, limit) ==
  5 * freedSize >= 5 * (totalSize - limit)

FreedEnough(freedSize, totalSize, limit) ==
  5 * freedSize >= 5 * (totalSize - limit) + limit

\* the for loop of cleanupCache: the places it removes, in order
RECURSIVE RemoveLoop(_, _, _, _, _)
RemoveLoop(es, sorted, freedSize, totalSize, limit) ==
  IF sorted = <<>> THEN <<>>
  ELSE LET freed == freedSize + es[Head(sorted)].size
       IN IF FreedEnough(freed, totalSize, limit) THEN <<Head(sorted)>>
          ELSE <<Head(sorted)>> \o
               RemoveLoop(es, Tail(sorted), freed, totalSize, limit)

\* cleanupCache(): the places of the entries it removes, in order
CleanupCacheRemoves(es, limit) ==
  LET totalSize == SumSizes(es, Places(es))
  IN IF totalSize > limit
     THEN RemoveLoop(es, SortByLastModified(es), 0, totalSize, limit)
     ELSE <<>>

\* a sweep starts on some cache directory under some budget
InitK ==
  /\ Quiet
  /\ call \in {[fn |-> "cleanupCache",
                arg |-> [entries |-> es, limit |-> l],
                ret |-> <<>>, done |-> FALSE] :
                 es \in CacheEntries, l \in Limits}

\* await this.cacheService.cleanupCache()
ApplyCleanupCache ==
  /\ call.fn = "cleanupCache"
  /\ ~call.done
  /\ call' = [call EXCEPT
                !.ret = CleanupCacheRemoves(call.arg.entries,
                                            call.arg.limit),
                !.done = TRUE]
  /\ UNCHANGED <<env, executionService, pipelineVars, workspaceVars,
                 cacheVars, raceVars>>

NextK == ApplyCleanupCache

SpecK == InitK /\ [][NextK]_vars

\* ================================= installDependencies alone (SpecR) ==
\* One call of installDependencies on a cache entry nothing else touches.
\* The entry is [nm, has]: whether <entry>/node_modules exists and, for
\* each package, how much of it fs.access finds there.  The outcomes of
\* the I/O the call performs are inputs: fs.symlink, the fs.cp of the
\* reuse path, the package manager (pnpm config and pnpm install), and
\* the writes that populate the entry.

\* package names the extractor can return
Packages == {"left-pad", "lodash", "@scope/pkg"}

\* pkg.startsWith('@')
IsScoped(pkg) == pkg = "@scope/pkg"

\* what fs.access finds of a package under <entry>/node_modules: nothing,
\* the scope directory only, the package directory without package.json,
\* or the package directory with package.json
Presence(pkg) ==
  IF IsScoped(pkg) THEN {"none", "scope", "dir", "whole"}
  ELSE {"none", "dir", "whole"}

\* an entry without node_modules
NoModules == [nm |-> FALSE, has |-> [p \in Packages |-> "none"]]

CacheStates ==
  {NoModules} \cup
  {[nm |-> TRUE, has |-> h] :
     h \in {f \in [Packages -> {"none", "scope", "dir", "whole"}] :
              \A p \in Packages : f[p] \in Presence(p)}}

IOOutcomes == [symlink : BOOLEAN, cp : BOOLEAN, pnpm : BOOLEAN, cache : BOOLEAN]

\* checkForMissingDependencies that stops at the package directory
CheckForMissingDirOnly(entry, dependencies) ==
  {p \in dependencies : entry.has[p] \notin {"dir", "whole"}}

\* checkForMissingDependencies(cacheModulesPath, dependencies)
CheckForMissingDependencies(entry, dependencies) ==
  {p \in dependencies : entry.has[p] # "whole"}

\* the entry after a successful population: fs.rm of the old entry, then
\* fs.cp of the node_modules pnpm installed for `dependencies`
Populated(dependencies) ==
  [nm |-> TRUE,
   has |-> [p \in Packages |-> IF p \in dependencies THEN "whole"
                               ELSE "none"]]

\* a call's outcome: what it returned or that it threw, how node_modules
\* came into the workspace, the I/O it tried in order, and the entry it
\* leaves
Outcome(result, how, tried, entry) ==
  [result |-> result, how |-> how, tried |-> tried, entry |-> entry]

\* installDependencies(dependencies, codeDir, cacheKey, cachePath,
\* forceUpdate)
InstallDependenciesOf(dependencies, forceUpdate, entry, io) ==
  IF dependencies = {} THEN Outcome("success", "none", <<>>, entry)
  ELSE IF /\ ~forceUpdate
          /\ entry.nm
          /\ CheckForMissingDependencies(entry, dependencies) = {}
    THEN IF io.symlink
           THEN Outcome("success", "link", <<"symlink">>, entry)
         ELSE IF io.cp
           THEN Outcome("success", "copy", <<"symlink", "cp">>, entry)
         ELSE Outcome("throw", "none", <<"symlink", "cp">>, entry)
  ELSE IF ~io.pnpm
    THEN Outcome("throw", "none", <<"pnpm">>, entry)
  ELSE IF forceUpdate
    THEN Outcome("success", "install", <<"pnpm">>, entry)
  ELSE IF io.cache
    THEN Outcome("success", "install", <<"pnpm", "populate">>,
                 Populated(dependencies))
  ELSE Outcome("success", "install", <<"pnpm", "populate">>, NoModules)

\* the controller calls the resolver
InitR ==
  /\ Quiet
  /\ call \in {[fn |-> "installDependencies",
                arg |-> [dependencies |-> d, forceUpdate |-> f,
                         entry |-> e, io |-> io],
                ret |-> Outcome("throw", "none", <<>>, e),
                done |-> FALSE] :
                 d \in SUBSET Packages, f \in BOOLEAN, e \in CacheStates,
                 io \in IOOutcomes}

\* await this.dependencyService.installDependencies(...)
ApplyInstallDependencies ==
  /\ call.fn = "installDependencies"
  /\ ~call.done
  /\ call' = [call EXCEPT
                !.ret = InstallDependenciesOf(call.arg.dependencies,
                                              call.arg.forceUpdate,
                                              call.arg.entry,
                                              call.arg.io),
                !.done = TRUE]
  /\ UNCHANGED <<env, executionService, pipelineVars, workspaceVars,
                 cacheVars, raceVars>>

NextR == ApplyInstallDependencies

SpecR == InitR /\ [][NextR]_vars

\* ============================ the runner's 'close' handler (SpecO) ==
\* The 'close' handler of ExecutionService.executeCode applied to what a
\* child left behind: its exit code (-1 for a child killed by a signal,
\* whose code is null), the contents of its two streams by class, the
\* JSON line of the wrapper when a stream holds it, and collectDebugInfo.

\* exit codes: success, failure, killed by a signal
ExitCodes == {0, 1, -1}

\* contents of a stream, as Cat classifies them
StreamClasses == {"empty", "ws", "frame", "null", "text"}

\* the JSON line wrapper.js emits
Frames ==
  [console : UNION {[1..n -> CalledTypes] : n \in 0..MaxCalls},
   error : ErrorMessages \cup {UndefinedProp}]

\* JSON.parse accepts the stream
ParsesAsJSON(stream) == stream \in {"frame", "null"}

\* a child has exited and its streams have closed
InitO ==
  /\ Quiet
  /\ call \in {[fn |-> "close",
                arg |-> [code |-> c, stdout |-> out, stderr |-> err,
                         frame |-> f, collectDebugInfo |-> d],
                ret |-> NoSettled, done |-> FALSE] :
                 c \in ExitCodes, out \in StreamClasses,
                 err \in StreamClasses, f \in Frames, d \in BOOLEAN}

\* process.on('close', async (code) => { ... })
ApplyOnClose ==
  /\ call.fn = "close"
  /\ ~call.done
  /\ call' = [call EXCEPT
                !.ret = OnCloseOutcome(call.arg.code, call.arg.stdout,
                                       call.arg.stderr, call.arg.frame,
                                       call.arg.collectDebugInfo),
                !.done = TRUE]
  /\ UNCHANGED <<env, executionService, pipelineVars, workspaceVars,
                 cacheVars, raceVars>>

NextO == ApplyOnClose

SpecO == InitO /\ [][NextO]_vars

\* ============================ filterErrorStack on frames (SpecG) ==
\* filterErrorStack applied to the stack of an Error thrown in the child:
\* the message line, then frames of the user program, of a dependency, of
\* wrapper.js and of the interpreter itself, in any order.

\* "Error: <message>"
MessageLine == <<"txt">>

\* the kinds of frame and the line of each: a frame in execution.js, one
\* under node_modules, one in wrapper.js, one inside the interpreter
FrameKinds == {"user", "dependency", "wrapper", "other"}

FrameLine(kind) ==
  CASE kind = "user" -> <<"ws", "/execution.js", "txt">>
    [] kind = "dependency" -> <<"ws", "/node_modules/", "txt">>
    [] kind = "wrapper" -> <<"ws", "wrapper.js", "txt">>
    [] OTHER -> <<"srv", "txt">>

\* error.stack.split('\n') for the frames `kinds`
StackOf(kinds) ==
  <<MessageLine>> \o [i \in DOMAIN kinds |-> FrameLine(kinds[i])]

\* the catch block is about to filter the stack of a thrown Error
InitG ==
  /\ Quiet
  /\ call \in {[fn |-> "filterErrorStack(frames)", arg |-> kinds,
                ret |-> <<>>, done |-> FALSE] :
                 kinds \in UNION {[1..n -> FrameKinds] : n \in 0..MaxFrames}}

\* const filteredStack = this.filterErrorStack(error)
ApplyFilterFrames ==
  /\ call.fn = "filterErrorStack(frames)"
  /\ ~call.done
  /\ call' = [call EXCEPT !.ret = FilterErrorStack(StackOf(call.arg)),
                          !.done = TRUE]
  /\ UNCHANGED <<env, executionService, pipelineVars, workspaceVars,
                 cacheVars, raceVars>>

NextG == ApplyFilterFrames

SpecG == InitG /\ [][NextG]_vars

\* ------------------------------------------------- getDirectorySize ----
\* The directory sizer alone, on small directory trees.  Entry 0 is
\* directoryPath; entry i of `entries` lies in the directory `parent`
\* (0 or an earlier entry that is a directory), so real directories form a
\* tree.  A symbolic link has a `target`, the root or the directory the
\* link lies in: following it would loop.  `fault` says what goes wrong
\* when the walk comes to the entry: "lstat" (the entry is gone or cannot
\* be read) or, for a directory, "readdir".

RootDir == 0

FileSizes == {1, 2}

\* the entries that can be added to the tree `t`
EntriesFor(t) ==
  LET folders == {RootDir} \cup {i \in DOMAIN t : t[i].kind = "dir"}
  IN    [parent : folders, kind : {"file"}, size : FileSizes,
         fault : {"none"}, target : {RootDir}]
   \cup [parent : folders, kind : {"file", "dir"}, size : {1},
         fault : {"lstat"}, target : {RootDir}]
   \cup [parent : folders, kind : {"dir"}, size : {1},
         fault : {"none", "readdir"}, target : {RootDir}]
   \cup {[parent |-> d, kind |-> "link", size |-> 1, fault |-> "none",
          target |-> g] : <<d, g>> \in {<<d, g>> \in folders \X folders :
                                         g \in {RootDir, d}}}

RECURSIVE Trees(_)
Trees(k) ==
  IF k = 0 THEN {<<>>}
  ELSE {Append(t, e) : <<t, e>> \in
          UNION {{<<u, f>> : f \in EntriesFor(u)} : u \in Trees(k - 1)}}

\* the loop without the isSymbolicLink test
CountedWithLinks(t, c) == t[c].fault # "lstat"

\* if (stats.isSymbolicLink()) continue: the entries whose lstat succeeded
\* and that are not links are the ones the loop goes on with
Counted(t, c) == t[c].fault # "lstat" /\ t[c].kind # "link"

RECURSIVE GetDirectorySize(_, _, _)
RECURSIVE SumEntries(_, _, _)

\* the for loop over `files`: totalSize after the entries S
SumEntries(gone, t, S) ==
  IF S = {} THEN 0
  ELSE LET c == CHOOSE x \in S : TRUE
           own == IF ~Counted(t, c) THEN 0
                  ELSE IF t[c].kind = "dir"
                       THEN GetDirectorySize(gone, t, c)
                       ELSE t[c].size
       IN own + SumEntries(gone, t, S \ {c})

\* getDirectorySize(directoryPath) for the directory d of the tree
GetDirectorySize(gone, t, d) ==
  IF (d = RootDir /\ gone) \/ (d # RootDir /\ t[d].fault = "readdir")
  THEN 0
  ELSE SumEntries(gone, t, {c \in DOMAIN t : t[c].parent = d})

\* a cache entry (or the cache root) is about to be sized
InitZ ==
  /\ Quiet
  /\ call \in {[fn |-> "getDirectorySize",
                arg |-> [gone |-> g, entries |-> t],
                ret |-> 0, done |-> FALSE] :
                 g \in BOOLEAN, t \in UNION {Trees(k) : k \in 0..MaxNodes}}

\* const size = await getDirectorySize(entryPath)
ApplyGetDirectorySize ==
  /\ call.fn = "getDirectorySize"
  /\ ~call.done
  /\ call' = [call EXCEPT
                !.ret = GetDirectorySize(call.arg.gone, call.arg.entries,
                                         RootDir),
                !.done = TRUE]
  /\ UNCHANGED <<env, executionService, pipelineVars, workspaceVars,
                 cacheVars, raceVars>>

NextZ == ApplyGetDirectorySize

SpecZ == InitZ /\ [][NextZ]_vars

\* ------------------------------------------- the pnpm store setting ----
\* Concurrent installs and pnpm's store-dir setting.  configurePnpmStore
\* runs `pnpm config set store-dir "<cachePath>/pnpm-store"` with the
\* workspace as cwd; `pnpm config set` without --location writes the
\* user's configuration file, one for the whole server, whatever the cwd.
\* `pnpm install` in a workspace (which holds no .npmrc of its own) reads
\* the setting when it starts.

\* path.join(cachePath, 'pnpm-store'), named by the cache key of cachePath
StoreOf(k) == k

\* installDependencies reaches the install path for a request with key k
BeginInstall(r) ==
  /\ installer[r].pc = "idle"
  /\ \E k \in KeysOf(r) :
       installer' = [installer EXCEPT ![r] = [NoInstaller EXCEPT
                                                !.pc = "config", !.key = k]]
  /\ UNCHANGED <<storeDir, slot, copier, env, executionService,
                 pipelineVars, workspaceVars, cacheVars, unitVars>>

\* configurePnpmStore: mkdir of the store directory, then pnpm config set;
\* either may fail, and the error is rethrown
ConfigurePnpmStore(r) ==
  /\ installer[r].pc = "config"
  /\ \E ok \in BOOLEAN :
       IF ok
       THEN /\ storeDir' = StoreOf(installer[r].key)
            /\ installer' = [q \in Reqs |->
                 IF q = r THEN [installer[r] EXCEPT !.pc = "install"]
                 ELSE IF installer[q].pc = "install"
                         /\ installer[q].key # installer[r].key
                      THEN [installer[q] EXCEPT !.raced = TRUE]
                      ELSE installer[q]]
       ELSE /\ installer' = [installer EXCEPT ![r].pc = "failed"]
            /\ UNCHANGED storeDir
  /\ UNCHANGED <<slot, copier, env, executionService, pipelineVars,
                 workspaceVars, cacheVars, unitVars>>

\* exec('pnpm install --no-frozen-lockfile', {cwd: codeDir}): the install
\* uses the store the configuration names at that time
PnpmInstallStore(r) ==
  /\ installer[r].pc = "install"
  /\ installer' = [installer EXCEPT ![r].pc = "done", ![r].store = storeDir]
  /\ UNCHANGED <<storeDir, slot, copier, env, executionService,
                 pipelineVars, workspaceVars, cacheVars, unitVars>>

\* the request is answered; the next one of this client may arrive
EndInstall(r) ==
  /\ installer[r].pc \in {"done", "failed"}
  /\ installer' = [installer EXCEPT ![r] = NoInstaller]
  /\ UNCHANGED <<storeDir, slot, copier, env, executionService,
                 pipelineVars, workspaceVars, cacheVars, unitVars>>

NextT ==
  \E r \in Reqs :
    \/ BeginInstall(r)
    \/ ConfigurePnpmStore(r)
    \/ PnpmInstallStore(r)
    \/ EndInstall(r)

SpecT == Init /\ [][NextT]_vars

\* ------------------------------------------------------- the cachePath --
\* The directory a request's cache key names.  A path is the sequence of
\* its segments below "/"; a cache key is the sequence of the segments its
\* text splits into at the separators, so a key of one segment that is
\* neither "." nor ".." is a plain name.

\* path.resolve(this.cacheDir): the absolute path of the cache root
CacheRoot == <<"srv", "cache">>

SegmentNames == {".", "..", "a", "node_modules"}

\* the cache keys validation accepts (any text that is not empty)
AcceptedKeys == UNION {[1..n -> SegmentNames] : n \in 1..MaxSegments}

\* path.normalize: "." is dropped, ".." removes the segment before it and
\* is dropped at "/"
RECURSIVE Normalize(_, _)
Normalize(done, rest) ==
  IF rest = <<>> THEN done
  ELSE LET s == Head(rest) IN
       Normalize(IF s = "." THEN done
                 ELSE IF s = ".."
                      THEN (IF done = <<>> THEN done
                            ELSE SubSeq(done, 1, Len(done) - 1))
                      ELSE Append(done, s),
                 Tail(rest))

\* path.join(a, b) of an absolute path a
PathJoin(a, b) == Normalize(<<>>, a \o b)

\* path.dirname of a normalized absolute path
Dirname(p) == IF p = <<>> THEN p ELSE SubSeq(p, 1, Len(p) - 1)

\* executeCode: cachePath; installDependencies: the directory that is
\* removed, created and copied into, path.dirname(cacheModulesPath)
EntryDirOf(cacheKey) ==
  LET cachePath == PathJoin(CacheRoot, cacheKey)
      cacheModulesPath == PathJoin(cachePath, <<"node_modules">>)
  IN Dirname(cacheModulesPath)

\* a validated request is about to populate the cache for its key
InitY ==
  /\ Quiet
  /\ call \in {[fn |-> "cachePath", arg |-> k, ret |-> <<>>,
                done |-> FALSE] : k \in AcceptedKeys}

\* the install succeeded: fs.rm, fs.mkdir and fs.cp on the entry directory
ApplyPopulate ==
  /\ call.fn = "cachePath"
  /\ ~call.done
  /\ call' = [call EXCEPT !.ret = EntryDirOf(call.arg), !.done = TRUE]
  /\ UNCHANGED <<env, executionService, pipelineVars, workspaceVars,
                 cacheVars, raceVars>>

NextY == ApplyPopulate

SpecY == InitY /\ [][NextY]_vars

\* ============================================================= claims ==
\* the request in flight carries both `code` and `cacheKey`
WellFormed == req.code # "" /\ req.cacheKey # ""

\* the request in flight lacks `code` or `cacheKey`
Malformed == pc # "idle" /\ (req.code = "" \/ req.cacheKey = "")

\* the handler's promise has settled
HandlerEnded == pc \in {"done", "crashed"}

C2_AlwaysStatus200 ==
  (HandlerEnded /\ WellFormed) => (response.sent /\ response.status = 200)

\* C3 (as claimed): every failure response to a validated request
\* carries a `console` array.
C3_FailureCarriesConsole ==
  (response.sent /\ WellFormed /\ ~response.success)
    => "console" \in response.fields

\* C4 (as claimed): on success response.console holds exactly one record
\* per console call the user program made, in call order, with its type.
C4_ConsoleExact ==
  (response.sent /\ response.success)
    => (child.uncaptured = 0 /\ response.console = child.captured)

\* C5 (as claimed): when the entrypoint throws or rejects with message m,
\* the response has success:false and error = m, the empty m included.
C5_ErrorIsMessage ==
  (response.sent /\ child.thrown # UndefinedProp)
    => (~response.success /\ response.error = child.thrown)

\* C6 (as claimed): when the package manager exits non-zero, the response
\* has success:false and its error carries the captured diagnostic text.
C6_InstallErrorIsDiagnostic ==
  (response.sent /\ settled.val = "Error"
                 /\ settled.message = PnpmDiagnostic)
    => (~response.success /\ response.error = PnpmDiagnostic)

\* C7 (as claimed): a validated request whose dependency phase completed
\* is always answered, whatever the child writes, and once the deadline
\* has expired the child is no longer running.
C7_AlwaysAnswered ==
  /\ (HandlerEnded /\ WellFormed) => response.sent
  /\ child.timedOut => ~Running

Rank(order, e) == CHOOSE i \in 1..Len(order) : order[i] = e

\* the steps recorded so far occur in the given order, none twice
InOrder(order) ==
  \A i, j \in 1..Len(events) :
    i < j => Rank(order, events[i]) < Rank(order, events[j])

\* C9 (as claimed): validate, allocate, resolve, execute, respond, reclaim;
\* the workspace is deleted only after the response has been sent.
C9_RespondBeforeReclaim ==
  InOrder(<<"validate", "allocate", "resolve", "execute", "respond",
            "reclaim", "delete">>)

\* C9 (amended): validate, allocate, resolve, execute, reclaim, respond;
\* the workspace is reclaimed, and deleted when retention is off, before
\* the response is sent, and the response is the handler's last step.
C9_ReclaimBeforeRespond ==
  /\ InOrder(<<"validate", "allocate", "resolve", "execute", "reclaim",
               "delete", "respond">>)
  /\ pc = "done" => events[Len(events)] = "respond"

\* a request went through every step and its workspace was deleted
C9_Witness ==
  /\ pc = "done"
  /\ events = <<"validate", "allocate", "resolve", "execute", "reclaim",
                "delete", "respond">>

\* C10 (as claimed): with retention disabled, once a request that got a
\* workspace has been serviced, its workspace directory no longer exists.
C10_WorkspaceGone ==
  (pc = "done" /\ executionDir # NoDir
               /\ env.EXECUTIONS_DATA_PRUNE_MAX_COUNT <= 0)
    => executionDir \notin dirs

\* a positive retention count is configured
RetentionOn == env.EXECUTIONS_DATA_PRUNE_MAX_COUNT > 0

\* every request of the allocation specification has been serviced
AllServed == \A r \in Reqs : flight[r].pc = "done"

Has(e) == \E i \in 1..Len(events) : events[i] = e

\* C12 (as claimed): with EXECUTIONS_DATA_PRUNE_MAX_COUNT = 0 retention is
\* off: a workspace that is reclaimed is deleted by its own request.
C12_ZeroDisablesRetention ==
  (env.EXECUTIONS_DATA_PRUNE_MAX_COUNT = 0 /\ Has("reclaim"))
    => (Has("delete") /\ executionService.maxExecutionDirs <= 0)

\* C13 (as claimed): a prune never deletes the workspace of a request
\* that is still in flight, for any N >= 1 and any number of requests.
C13_NoInFlightPruned == victims = {}

\* C14 (as claimed): a request in flight shares its workspace directory
\* with no other request in flight and with no retained workspace.
C14_NoSharedWorkspace ==
  \A r, q \in Reqs :
    (r # q /\ InFlight(r)
           /\ (InFlight(q) \/ flight[q].dir \in root))
      => flight[r].dir # flight[q].dir

C17_FreshInstallNotFromCache ==
  (response.sent /\ "debug" \in response.fields
                 /\ used.deps = "some" /\ ~used.hadEntry /\ used.pm > 0)
    => ~used.usedCache

\* the request answered last arrived just after an answered request,
\* with nothing else in flight from its arrival to its response
Followed == last.pc = "done" /\ last.alone /\ last.prev # NoPrev

\* C16 (as claimed): when a request with cacheKey K and forceUpdate=false
\* has completed successfully and the very next request carries the same
\* code, K and forceUpdate=false, that request is served from the cache
\* entry: the package manager is not invoked, debug.cache.usedCache is
\* true and installedDependencies equals the first request's.
C16_SecondServedFromCache ==
  (/\ Followed
   /\ last.prev.ok
   /\ last.prev.key = last.key
   /\ ~last.prev.force
   /\ ~last.force)
    => /\ last.pm = 0
       /\ last.usedCache
       /\ last.versions = last.prev.versions

\* C18 (as claimed): once a request whose install stored a cache entry
\* has completed, with nothing else in flight, a listing of the cache
\* totals at most the byte budget (an install that leaves the cache
\* within the budget satisfies this at once; one that takes it past the
\* budget is the claim's case).
C18_WithinBudgetAfterInstall ==
  (last.pc = "done" /\ last.stored /\ last.alone /\ InFlightJobs = {})
    => TotalSize(entries, lru) <= CacheSizeLimit

\* the request answered last forced an update and its install succeeded
ForcedInstall ==
  last.pc = "done" /\ last.force /\ last.pm = 1 /\ last.nm = "installed"

\* C19 (as claimed): once a request with forceUpdate=true whose install
\* succeeded has completed, with nothing else in flight meanwhile, the
\* cache entry of its cacheKey holds the dependency tree that request
\* installed.
C19_ForceUpdateReplacesEntry ==
  (ForcedInstall /\ last.alone /\ InFlightJobs = {})
    => entries[last.key].tree = last.id

\* C20 (as claimed): while a request on key K is installing into,
\* reusing or executing against K's entry, no sweep run by a concurrent
\* request on another key removes K's entry.
C20_DistinctKeysDoNotInterfere == harm = {}

\* every request of the race has finished its population, two at least
RaceOver ==
  /\ \A r \in Reqs : copier[r].pc \in {"idle", "done"}
  /\ Cardinality({r \in Reqs : copier[r].pc = "done"}) >= 2

\* C21 (as claimed): once the requests that repopulated the entry of one
\* cacheKey have completed, node_modules of the entry is exactly the tree
\* one of them installed: no file of another request's tree, no file
\* missing.
C21_LastWriterWins ==
  RaceOver => \E r \in Reqs : /\ copier[r].pc = "done"
                              /\ slot.items = Whole(r, copier[r].tree)

\* C22 (as claimed): every response to a request that carries code and
\* cacheKey and sets options.debug has a `debug` object, on the success
\* path and on every failure path.
C22_DebugOnEveryPath ==
  (response.sent /\ WellFormed /\ req.debug) => "debug" \in response.fields

\* C23 (as claimed): whatever error.stack holds, the filtered stack names
\* neither the workspace directory nor a server directory in front of
\* /node_modules/, on any line, the first included.
C23_StackScrubbed ==
  (call.fn = "filterErrorStack" /\ call.done) => ~Leaks(call.ret)

\* the middleware has handled a request for a path other than /health
\* with a token configured
Guarded ==
  /\ call.fn = "authMiddleware" /\ call.done
  /\ call.arg.secret # "" /\ call.arg.path # "/health"

\* C24 (as claimed): with a token configured, a request for a path other
\* than /health reaches its handler only if its Authorization header is
\* `Bearer <token>` with the configured token; a missing or non-Bearer
\* header gets 401 and a Bearer header with another token 403, the handler
\* not being run; /health is served whatever the header.
C24_BearerTokenRequired ==
  /\ Guarded =>
       LET h == call.arg.header
           exact == h = <<"Bearer", call.arg.secret>>
       IN /\ call.ret.next <=> exact
          /\ ~StartsWithBearer(h) => call.ret = Deny(401)
          /\ (StartsWithBearer(h) /\ ~exact) => call.ret = Deny(403)
  /\ (call.fn = "authMiddleware" /\ call.done /\ call.arg.path = "/health")
       => call.ret.next

\* C25 (as claimed): for every source text the dependency extractor
\* returns a dependency set; no name of the set is on the built-in list,
\* and every scoped specifier with a pinned version that the text requires
\* or imports is in the set under its name without the version suffix,
\* mapped to 'latest'.
C25_ExtractorNames ==
  (call.fn = "extractDependencies" /\ call.done) =>
     /\ ~call.ret.threw
     /\ \A n \in DOMAIN call.ret.dependencies : n \notin NativeModules
     /\ \A i \in DOMAIN call.arg :
          LET stmt == call.arg[i]
          IN (/\ stmt.form # "other"
              /\ stmt.spec.scope # ""
              /\ stmt.spec.version # "") =>
               LET n == stmt.spec.scope \o "/" \o stmt.spec.name
               IN /\ n \in DOMAIN call.ret.dependencies
                  /\ call.ret.dependencies[n] = "latest"

\* |p - b| <= b / 100 for the parsed size p and the byte count b
WithinOnePercent(p, b) ==
  IF b.n = 0 THEN p.h = 0
  ELSE LET e == IF p.k < b.s THEN p.k ELSE b.s
           x == p.h * Pow1024(p.k - e)
           y == 100 * b.n * Pow1024(b.s - e)
       IN (IF x >= y THEN x - y ELSE y - x) <= b.n * Pow1024(b.s - e)

\* the byte counts the claim lists
Listed ==
  {[n |-> 0, s |-> 0], [n |-> 1, s |-> 0], [n |-> 1023, s |-> 0],
   [n |-> 1024, s |-> 0], [n |-> 1048575, s |-> 0], [n |-> 1, s |-> 2],
   [n |-> 1048576, s |-> 0], [n |-> 5, s |-> 3]}

\* C26 (as claimed): for each of the byte counts 0, 1, 1023, 1024,
\* 1024^2 - 1, 1024^2 and 5 * 1024^3, parsing the string the size
\* formatter produces for it yields a value within 1% of the byte count.
C26_ParseFormatRoundTrip ==
  (/\ call.fn = "parseFileSize(formatFileSize)" /\ call.done
   /\ call.arg \in Listed) => WithinOnePercent(call.ret, call.arg)

\* a sweep has run
Swept == call.fn = "cleanupCache" /\ call.done

StepsFollow(r, steps) ==
  /\ Len(copier[r].trace) <= Len(steps)
  /\ copier[r].trace = SubSeq(steps, 1, Len(copier[r].trace))

\* the request has run its sweep
HasSwept(r) == \E i \in DOMAIN copier[r].trace : copier[r].trace[i] = "sweep"

\* C29 (as claimed): after a successful install with forceUpdate = false
\* the resolver runs the sweep first, then removes the key's prior entry,
\* then copies node_modules into the entry, so the sweep's listing holds
\* the prior entry.
C29_SweepThenRemove ==
  \A r \in Reqs :
    /\ StepsFollow(r, <<"sweep", "rm", "mkdir", "cp">>)
    /\ (copier[r].solo /\ HasSwept(r) /\ copier[r].hadPrior) => copier[r].saw

\* C29 (amended): after a successful install with forceUpdate = false the
\* resolver removes the key's prior entry first, then runs the sweep, then
\* makes the entry and copies node_modules into it; the sweep of a request
\* that populates the key alone does not list the key's entry.
C29_RemoveThenSweep ==
  \A r \in Reqs :
    /\ StepsFollow(r, <<"rm", "sweep", "mkdir", "cp">>)
    /\ (copier[r].solo /\ HasSwept(r)) => ~copier[r].saw

\* a request populating alone has removed the entry an earlier request
\* left, has swept, and has gone on to copy
C29_Witness ==
  \E r \in Reqs :
    /\ copier[r].solo /\ copier[r].hadPrior
    /\ HasSwept(r) /\ ~copier[r].saw
    /\ copier[r].pc = "done" /\ copier[r].copied

\* the resolver has been called with a non-empty Dependency Set
Resolved ==
  /\ call.fn = "installDependencies" /\ call.done
  /\ call.arg.dependencies # {}

\* every requested package has its directories and its metadata file
Covered ==
  /\ call.arg.entry.nm
  /\ \A p \in call.arg.dependencies : call.arg.entry.has[p] = "whole"

\* node_modules came from the entry and the package manager did not run
ServedFromCache ==
  /\ call.ret.result = "success"
  /\ call.ret.how \in {"link", "copy"}
  /\ \A i \in DOMAIN call.ret.tried : call.ret.tried[i] # "pnpm"

Reusing == Resolved /\ ~call.arg.forceUpdate /\ Covered

\* C30 (as claimed): an I/O error while reusing a cache entry never fails
\* the request: when the link fails the resolver copies, and when the copy
\* fails too it runs the package manager.
C30_ReuseNeverFails ==
  Reusing =>
    /\ (~call.arg.io.symlink /\ call.arg.io.cp) =>
         call.ret.result = "success" /\ call.ret.how = "copy"
    /\ (~call.arg.io.symlink /\ ~call.arg.io.cp) =>
         /\ call.ret.tried = <<"symlink", "cp", "pnpm">>
            \/ call.ret.tried = <<"symlink", "cp", "pnpm", "populate">>
         /\ call.arg.io.pnpm => call.ret.result = "success"

\* the 'close' handler has settled the runner's promise
Closed == call.fn = "close" /\ call.done

\* C31 (as claimed): the runner resolves if and only if the child exited
\* with code 0, wrote nothing to its diagnostic stream and its primary
\* stream parses as JSON; a zero exit with an empty diagnostic stream and
\* an unparseable primary stream rejects with "Invalid output format"; a
\* non-zero exit, a kill by signal or any byte on the diagnostic stream
\* rejects with the record parsed from the diagnostic stream, or with the
\* diagnostic text (or "Unknown execution error") when it does not parse.
C31_RunnerOutcome ==
  Closed =>
    LET a == call.arg
        clean == a.code = 0 /\ a.stderr = "empty"
    IN /\ call.ret.kind = "resolved" <=> (clean /\ ParsesAsJSON(a.stdout))
       /\ (clean /\ ~ParsesAsJSON(a.stdout)) =>
            /\ call.ret.kind = "rejected"
            /\ call.ret.error = "Invalid output format"
       /\ (~clean /\ a.stderr = "frame") =>
            /\ call.ret.kind = "rejected"
            /\ call.ret.error = a.frame.error
            /\ call.ret.console = a.frame.console
       /\ (~clean /\ ~ParsesAsJSON(a.stderr)) =>
            /\ call.ret.kind = "rejected"
            /\ call.ret.error = IF a.stderr = "empty"
                                THEN "Unknown execution error"
                                ELSE RawStderr

\* C32 (as claimed): the console methods are replaced before the user
\* module is loaded, so no console call made while the module loads
\* reaches the child's primary or diagnostic stream: each one is appended
\* to the captured list.
C32_ShimsBeforeLoad == child.uncaptured = 0

\* how many of the frames `kinds` are of kind k
CountKind(kinds, k) == Cardinality({i \in DOMAIN kinds : kinds[i] = k})

\* how many lines of the filtered stack are "    at [code]"
CodeLines(stack) ==
  Cardinality({i \in DOMAIN stack : stack[i] = <<"    at [code]">>})

\* C33 (as claimed): in the scrubbed stack the first line is the error
\* message unchanged; the wrapper frames of the input, however many,
\* collapse to one `at [code]` line; a frame that is neither a user
\* frame, a dependency frame nor a wrapper frame is absent, so the output
\* has the message, one line per user or dependency frame and at most one
\* `at [code]` line.
C33_WrapperFramesCollapse ==
  (call.fn = "filterErrorStack(frames)" /\ call.done) =>
     /\ call.ret[1] = MessageLine
     /\ CodeLines(call.ret) =
          (IF CountKind(call.arg, "wrapper") > 0 THEN 1 ELSE 0)
     /\ Len(call.ret) = 1 + CountKind(call.arg, "user")
                          + CountKind(call.arg, "dependency")
                          + CodeLines(call.ret)

\* request r has listed the executions root for its prune, the retention
\* count is positive, and no other request was allocating meanwhile
PrunesAlone(r) ==
  /\ flight[r].pc = "prune"
  /\ ~flight[r].overlap
  /\ executionService.maxExecutionDirs > 0

\* C34 (as claimed): with a retention count N > 0 and no concurrent
\* allocation, the directories an allocation's prune leaves are
\* min(N, count) directories with the largest millisecond component, and
\* the directory just allocated is one of them.
C34_PruneKeepsNewest ==
  \A r \in Reqs :
    PrunesAlone(r) =>
      LET N == executionService.maxExecutionDirs
          kept == root \ flight[r].doomed
      IN /\ flight[r].doomed \subseteq root
         /\ Cardinality(kept) =
              (IF Cardinality(root) < N THEN Cardinality(root) ELSE N)
         /\ \A d \in flight[r].doomed, e \in kept : d.ms <= e.ms
         /\ flight[r].dir \in kept


\* entry n is reached by a walk that goes through real directories only:
\* it can be read, and every directory above it can be read and listed
RECURSIVE Reached(_, _, _)
Reached(gone, t, n) ==
  /\ t[n].fault # "lstat"
  /\ IF t[n].parent = RootDir THEN ~gone
     ELSE /\ t[t[n].parent].kind = "dir"
          /\ t[t[n].parent].fault = "none"
          /\ Reached(gone, t, t[n].parent)

RECURSIVE SizeOfFiles(_, _)
SizeOfFiles(t, S) ==
  IF S = {} THEN 0
  ELSE LET n == CHOOSE x \in S : TRUE
       IN t[n].size + SizeOfFiles(t, S \ {n})

Sized == call.fn = "getDirectorySize" /\ call.done

\* C35: the sizer returns a number, the sum of the sizes of the regular
\* files reached through real directories; a symbolic link adds nothing
\* and nothing behind it is counted, and an entry that is gone or cannot
\* be read is skipped.
C35_SizerSumsRegularFiles ==
  Sized =>
    LET t == call.arg.entries
    IN /\ call.ret \in Nat
       /\ call.ret = SizeOfFiles(t, {n \in DOMAIN t :
                        t[n].kind = "file" /\ Reached(call.arg.gone, t, n)})

\* a sized tree with a counted file, a link back to the root inside a
\* subdirectory, and an entry that was gone
C35_Witness ==
  /\ Sized
  /\ call.ret > 0
  /\ \E l, m \in DOMAIN call.arg.entries :
        /\ call.arg.entries[l].kind = "link"
        /\ call.arg.entries[l].target = RootDir
        /\ call.arg.entries[l].parent # RootDir
        /\ call.arg.entries[m].fault = "lstat"


\* C36 (as claimed): a request is allocated, populated, executed, then
\* reclaimed; the interpreter is spawned at most once, only after the
\* dependency phase returned, never after a failed install; and a handler
\* that has ended has sent its response.
C36_LifecycleOneResponse ==
  /\ used.children <= 1
  /\ Has("execute") => Has("allocate") /\ Has("resolve")
  /\ Has("resolve") => Has("allocate")
  /\ used.children = 1 => Has("execute") /\ used.nodeModules # "partial"
  /\ HandlerEnded => response.sent


\* C37 (as claimed): the store directory a request's install uses is the
\* one derived from that request's own cache key, whatever other requests
\* with other cache keys do meanwhile.
C37_OwnStore ==
  \A r \in Reqs :
    installer[r].pc = "done" =>
      installer[r].store = StoreOf(installer[r].key)


\* C38 (as claimed): when the package-manager install of a request fails,
\* the cache root is as it was before the request; in particular the
\* entry of its cache key exists only if it existed before.
C38_FailedInstallLeavesCache ==
  used.nodeModules = "partial" =>
    (cache[req.cacheKey] # "none" <=> used.hadEntry)


\* the directory is a direct child of the cache root
IsEntryOfRoot(p) ==
  /\ Len(p) = Len(CacheRoot) + 1
  /\ SubSeq(p, 1, Len(CacheRoot)) = CacheRoot

\* C39 (as claimed): for every accepted cache key the directory the
\* resolver removes, creates and copies into is a direct child of the
\* cache root.
C39_EntryUnderRoot ==
  (call.fn = "cachePath" /\ call.done) => IsEntryOfRoot(call.ret)

============================================================================
